---- MODULE Spec2Model ----
(***************************************************************************)
(* Model of the event-processing core of webdev-notifications.             *)
(*                                                                         *)
(* The sub-systems are modelled each with a specification of its own:      *)
(*   SpecIngest  - N replicas of IngestionService (services/ingestion.ts)  *)
(*                 sharing the durable consumer "ingestion-consumer", the  *)
(*                 Redis dedup keys and the notifications.enriched subject *)
(*   SpecWorker  - one delivery worker process (workers/email.ts,          *)
(*                 workers/push.ts, SMSWorker and InAppWorker in           *)
(*                 workers/in-app.ts) on its durable consumer, with the    *)
(*                 delivery store and the notifications.dlq subject        *)
(*   SpecQuiet   - the quiet-hours rule of PreferenceEngine                *)
(*                 (services/preferences.ts) on times of day               *)
(*   SpecPref    - PreferenceEngine on "preferences-consumer" with the     *)
(*                 preference rows, the ratelimit keys and the             *)
(*                 notifications.routed.<channel> subjects, within one     *)
(*                 rate-limit window; SpecPrefRace runs every replica      *)
(*   SpecRouter  - one channel loop of ChannelRouter (services/router.ts)  *)
(*                 on "router-<channel>-consumer"                          *)
(*   SpecRender  - ChannelRouter.renderTemplate as a function of the       *)
(*                 template row and the rendering context                  *)
(*   SpecContext - the rendering context renderTemplate builds from the    *)
(*                 enriched event                                          *)
(*   SpecValidate - notificationEventSchema (the zod schema of the types   *)
(*                 file) on decoded messages                               *)
(*   SpecAnalytics - AnalyticsService.getAnalytics on the delivery table   *)
(*   SpecIngestRecipients - SpecIngest with events of several users and    *)
(*                 channels                                                *)
(*                                                                         *)
(* Every `await` of the source is an interleaving point: the code between  *)
(* two awaits is one action.  The broker (NATS JetStream), Redis and the   *)
(* relational store are outside the repository; they are modelled by the   *)
(* contract the code relies on: explicit ack, redelivery after NAK or ack  *)
(* timeout, at most max_deliver deliveries, msg.info.redeliveryCount = the *)
(* number of earlier deliveries of the message (0 on the first one).       *)
(***************************************************************************)
EXTENDS Integers, Sequences, FiniteSets, Bags, TLC

(* ------------------------------ bounds --------------------------------- *)
\* most rows of notification_deliveries
MaxAnRows == 3
\* longest channels list of a submitted event
MaxRawChannels == 2
\* longest template text, in tokens (a placeholder or a letter)
MaxTemplateTokens == 2
\* submitted messages on notifications.events
NEvents == 2
\* distinct event ids the submitted messages draw from
NEventIds == 2
\* ingestion replicas sharing the durable consumer
NReplicas == 2
\* the ingestion consumer sets no max_deliver: deliveries are capped here
IngDeliveryCap == 3
\* rendered messages on notifications.delivery.<channel>
NRendered == 2
\* of these, the messages published in the specification with process deaths
NCrashRendered == 1
\* times of day the quiet-hours rule is tried on: NQhTimes grid points
\* QhStride seconds apart (modulo one day), each also QhJitter seconds later
NQhTimes == 3
QhStride == 25991
QhJitter == 15
\* messages on notifications.enriched
NEnriched == 2
\* preference-filter replicas sharing the durable consumer
NPrefReplicas == 2
\* of these, the replicas running in the specification of the whole filter
NPrefSolo == 1
\* the preferences consumer sets no max_deliver: deliveries are capped here
PrefDeliveryCap == 2
\* longest channels list of an event, and the channel names it draws from
MaxChannels == 2
NPrefChannels == 2
\* messages on notifications.routed.<channel>
NRouted == 2
\* the router consumers set no max_deliver: deliveries are capped here
RtrDeliveryCap == 3

(* ------------------------- program constants --------------------------- *)
MAX_RETRIES == 3
BREAKER_THRESHOLD == 5
INGEST_BATCH == 10
WORKER_BATCH == 5
INAPP_BATCH == 10
DEFAULT_RATE_LIMIT == 10
PREF_BATCH == 10
ROUTER_BATCH == 5

EvMsgs == 1..NEvents
EventIds == 1..NEventIds
Replicas == 1..NReplicas
Rendered == 1..NRendered
Channels == {"email", "sms", "push", "in_app"}
Enriched == 1..NEnriched
Routed == 1..NRouted
PrefReplicas == 1..NPrefReplicas
ChannelOrder == <<"email", "sms", "push", "in_app">>
PrefChannels == {ChannelOrder[i] : i \in 1..NPrefChannels}
EventTypes == {"account", "security", "marketing", "system"}

VARIABLES
  \* ---- ingestion ----
  msgEventId,        \* [EvMsgs -> EventIds]   eventId of each submitted message
  msgValid,          \* [EvMsgs -> BOOLEAN]    decodes and passes the schema
  msgUserId,         \* [EvMsgs -> user ids]   userId of the submitted event
  msgChannels,       \* [EvMsgs -> channel lists] channels of the submitted event
  evStatus,          \* [EvMsgs -> {"pending","inflight","acked"}] at the consumer
  evDeliveries,      \* [EvMsgs -> Nat]        deliveries of the message so far
  evNaks,            \* [EvMsgs -> Nat]        msg.nak() calls on the message
  dedup,             \* set of event ids with a live dedup:<eventId> key
  dedupExpired,      \* event ids whose dedup key has expired (TTL elapsed)
  enrichedCount,     \* [EventIds -> Nat]      publishes to notifications.enriched
  ing,               \* [Replicas -> [pc, batch, cur]]
  \* ---- delivery worker ----
  channel,           \* the channel of the worker process
  userKnown,         \* [Rendered -> BOOLEAN] the event's user_id is a row of users
  deliveryId,        \* the id deliver() drew with nanoid() for its row
  rowOfId,           \* notification_deliveries by primary key: id -> row
  broadcasts,        \* what was published on ws:notifications: [id, msg]
  wpc,               \* position of the worker in start()
  batch,             \* messages of the fetched batch not yet taken
  cur,               \* message being processed (0: none)
  consecutiveFailures,
  circuitOpen,
  dlvStatus,         \* [Rendered -> {"unpublished","pending","inflight","acked","dropped"}]
  dlvDeliveries,     \* [Rendered -> Nat]      deliveries by the broker so far
  sendCount,         \* [Rendered -> Nat]      transport adapter invocations
  sentOk,            \* [Rendered -> Nat]      transport adapter calls that succeeded
  dlqCount,          \* [Rendered -> Nat]      records on notifications.dlq
  rows,              \* bag of delivery rows [msg, status, attemptCount, error]
  taken,             \* [Rendered -> Nat]      times the worker took it from a batch
  acks,              \* [Rendered -> Nat]      msg.ack() calls
  naks,              \* [Rendered -> Nat]      msg.nak() calls
  terminalFail,      \* messages whose failure branch saw r+1 >= MAX_RETRIES
  opens,             \* times the breaker has been opened
  \* ---- quiet hours ----
  qhNow,             \* the UTC time of day of `new Date()`, in seconds
  qhStart,           \* pref.quietHoursStart, in seconds of the day
  qhEnd,             \* pref.quietHoursEnd, in seconds of the day
  qhPc,              \* "input", "called" (isInQuietHours), "ruled" (rule 3)
  qhResult,          \* what isInQuietHours returned
  qhDenied,          \* whether rule 3 of isChannelAllowed denied
  \* ---- preference filter ----
  enrType,           \* eventType of the enriched events
  enrChannels,       \* channels list of the enriched events
  prefRow,           \* [PrefChannels -> row] preference of (user, channel, eventType)
  enrStatus,         \* [Enriched -> {"pending","inflight","acked"}] at the consumer
  enrDeliveries,     \* [Enriched -> Nat]   deliveries of the message so far
  rateCount,         \* [PrefChannels -> Nat] value of the ratelimit key (0: no key)
  rateTtl,           \* [PrefChannels -> BOOLEAN] the ratelimit key has a TTL
  routed,            \* [Enriched -> [PrefChannels -> Nat]] publishes to routed.<channel>
  charged,           \* [Enriched -> [channel -> Nat]] redis.incr calls made for the message
  pf,                \* [PrefReplicas -> [pc, batch, cur, idx, allowed, count]]
  evalHist,          \* [PrefChannels -> [passed, reached4, allowed]] evaluations of the window
  lastEval,          \* the last decided evaluation [chan, rule, count]
  \* ---- router ----
  rtrTemplate,       \* the template of (channel, eventType): "none", "ok", "bad"
  rtdStatus,         \* [Routed -> {"pending","inflight","acked"}] at the consumer
  rtdDeliveries,     \* [Routed -> Nat]   deliveries of the message so far
  renderedCount,     \* [Routed -> Nat]   messages stored on delivery.<channel>
  rtr,               \* [pc, batch, cur] of the channel loop
  lastRendered,      \* [Routed -> subject and body of the last message stored]
  rtrNakCause,       \* [Routed -> the calls whose throw NAKed the message]
  \* --- renderTemplate (services/router.ts), as a function
  tplBody,           \* template.body
  tplSubject,        \* template.subject, or NoSubject
  tplVariables,      \* template.variables
  rnContext,         \* the rendering context: name -> value
  rnPc,              \* "call" before renderTemplate has run, "done" after,
                     \* "twice" after a second call with the same arguments
  rnResult,          \* what renderTemplate returned
  rnFirst,           \* what the call before the last one returned
  evDataUserName,    \* event.data.userName
  evDataUserEmail,   \* event.data.userEmail
  evUserEmail,       \* event.userEmail, set by the enrichment
  rnBuilt,           \* userName and userEmail of the context the call built
  \* --- notificationEventSchema (types), as a function
  raw,               \* the decoded JSON of a submitted message
  vResult,           \* what safeParse returned for it
  \* --- AnalyticsService.getAnalytics
  anRows,            \* notification_deliveries: rows per channel, status and age
  anReport           \* what getAnalytics returned last

ingVars == <<msgEventId, msgValid, msgUserId, msgChannels, evStatus, evDeliveries, evNaks, dedup,
             dedupExpired, enrichedCount, ing>>
wrkVars == <<channel, userKnown, deliveryId, rowOfId, broadcasts, wpc, batch, cur, consecutiveFailures,
             circuitOpen, dlvStatus, dlvDeliveries, sendCount, sentOk, dlqCount, rows,
             taken, acks, naks, terminalFail, opens>>
qhVars == <<qhNow, qhStart, qhEnd, qhPc, qhResult, qhDenied>>
prefVars == <<enrType, enrChannels, prefRow, enrStatus, enrDeliveries, charged,
              rateCount, rateTtl, routed, pf, evalHist, lastEval>>
rtrVars == <<rtrTemplate, rtdStatus, rtdDeliveries, renderedCount, rtr, lastRendered, rtrNakCause>>
rnVars == <<tplBody, tplSubject, tplVariables, rnContext, rnPc, rnResult,
            rnFirst, evDataUserName, evDataUserEmail, evUserEmail, rnBuilt>>
valVars == <<raw, vResult>>
anVars == <<anRows, anReport>>
vars == <<ingVars, wrkVars, qhVars, prefVars, rtrVars, rnVars, valVars, anVars>>
\* what a step of one sub-system leaves alone
outsideIngest == <<wrkVars, qhVars, prefVars, rtrVars, rnVars, valVars, anVars>>
outsideWorker == <<ingVars, qhVars, prefVars, rtrVars, rnVars, valVars, anVars>>
outsideQuiet == <<ingVars, wrkVars, prefVars, rtrVars, rnVars, valVars, anVars>>
outsidePref == <<ingVars, wrkVars, qhVars, rtrVars, rnVars, valVars, anVars>>
outsideRouter == <<ingVars, wrkVars, qhVars, prefVars, rnVars, valVars, anVars>>
outsideRender == <<ingVars, wrkVars, qhVars, prefVars, rtrVars, valVars, anVars>>
outsideValidate == <<ingVars, wrkVars, qhVars, prefVars, rtrVars, rnVars, anVars>>
outsideAnalytics == <<ingVars, wrkVars, qhVars, prefVars, rtrVars, rnVars, valVars>>

(* ------------------------------ helpers -------------------------------- *)
RECURSIVE SortedSeq(_)
\* the members of a set of message sequence numbers, in stream order
SortedSeq(S) ==
  IF S = {} THEN <<>>
  ELSE LET x == CHOOSE y \in S : \A z \in S : y <= z
       IN <<x>> \o SortedSeq(S \ {x})

(***************************************************************************)
(*                              INGESTION                                  *)
(***************************************************************************)
IngIdle == [pc |-> "fetch", batch |-> <<>>, cur |-> 0]

\* the recipients of the submitted events: one user and channel list, and
\* the same with another user or another channel
Recipients ==
  {[userId |-> "user1", channels |-> <<"email">>],
   [userId |-> "user2", channels |-> <<"email">>],
   [userId |-> "user1", channels |-> <<"sms">>]}
FirstRecipient == [userId |-> "user1", channels |-> <<"email">>]

\* the messages on the stream before any is fetched: the recipients of the
\* messages are drawn from R, the validity of each message from V
IngInitWith(R, V) ==
  /\ msgEventId \in [EvMsgs -> EventIds]
  /\ msgValid \in [EvMsgs -> V]
  /\ \E to \in [EvMsgs -> R] :
       /\ to[1] = FirstRecipient
       /\ msgUserId = [m \in EvMsgs |-> to[m].userId]
       /\ msgChannels = [m \in EvMsgs |-> to[m].channels]
  /\ evStatus = [m \in EvMsgs |-> "pending"]
  /\ evDeliveries = [m \in EvMsgs |-> 0]
  /\ evNaks = [m \in EvMsgs |-> 0]
  /\ dedup = {}
  /\ dedupExpired = {}
  /\ enrichedCount = [e \in EventIds |-> 0]
  /\ ing = [r \in Replicas |-> IngIdle]

\* valid events of several recipients
IngInitRecipients == IngInitWith(Recipients, {TRUE})

\* events of one recipient, poison messages among them
IngInit == IngInitWith({FirstRecipient}, BOOLEAN)

\* consumer.fetch({ max_messages: 10, expires: 5000 }): the broker hands the
\* replica some of the pending messages, which become in flight
IngFetch(r) ==
  /\ ing[r].pc = "fetch"
  /\ \E S \in SUBSET {m \in EvMsgs : evStatus[m] = "pending"
                                      /\ evDeliveries[m] < IngDeliveryCap} :
       /\ S # {}
       /\ Cardinality(S) <= INGEST_BATCH
       /\ evStatus' = [m \in EvMsgs |-> IF m \in S THEN "inflight" ELSE evStatus[m]]
       /\ evDeliveries' = [m \in EvMsgs |-> IF m \in S THEN evDeliveries[m] + 1
                                             ELSE evDeliveries[m]]
       /\ ing' = [ing EXCEPT ![r] = [pc |-> "next", batch |-> SortedSeq(S), cur |-> 0]]
  /\ UNCHANGED <<msgEventId, msgValid, msgUserId, msgChannels, evNaks, dedup, dedupExpired, enrichedCount>>
  /\ UNCHANGED outsideIngest

\* msg.ack() (start, line 76)
IngAck(r, m) ==
  /\ evStatus' = [evStatus EXCEPT ![m] = "acked"]
  /\ ing' = [ing EXCEPT ![r].pc = "next", ![r].cur = 0]

\* msg.nak() in the catch block (start, lines 77-80): the broker redelivers
IngNak(r, m) ==
  /\ evStatus' = [evStatus EXCEPT ![m] = "pending"]
  /\ evNaks' = [evNaks EXCEPT ![m] = @ + 1]
  /\ ing' = [ing EXCEPT ![r].pc = "next", ![r].cur = 0]

\* for await (const msg of messages): take the next message; processEvent
\* decodes and validates it (lines 100-107) and throws on a poison message,
\* which the catch block of start() NAKs; a valid one goes on to redis.get
IngNext(r) ==
  /\ ing[r].pc = "next"
  /\ IF ing[r].batch = <<>>
     THEN /\ ing' = [ing EXCEPT ![r] = IngIdle]
          /\ UNCHANGED <<evStatus, evNaks>>
     ELSE LET m == Head(ing[r].batch) IN
          IF msgValid[m]
          THEN /\ ing' = [ing EXCEPT ![r] = [pc |-> "get", batch |-> Tail(ing[r].batch),
                                              cur |-> m]]
               /\ UNCHANGED <<evStatus, evNaks>>
          ELSE /\ evStatus' = [evStatus EXCEPT ![m] = "pending"]
               /\ evNaks' = [evNaks EXCEPT ![m] = @ + 1]
               /\ ing' = [ing EXCEPT ![r] = [pc |-> "next", batch |-> Tail(ing[r].batch),
                                              cur |-> 0]]
  /\ UNCHANGED <<msgEventId, msgValid, msgUserId, msgChannels, evDeliveries, dedup, dedupExpired, enrichedCount>>
  /\ UNCHANGED outsideIngest

\* a checkDuplicate that marks the event as seen without looking for the key
CheckDuplicateGetIgnoresKey(r) ==
  /\ ing[r].pc = "get"
  /\ ing' = [ing EXCEPT ![r].pc = "setex"]
  /\ UNCHANGED <<msgEventId, msgValid, msgUserId, msgChannels, evStatus, evDeliveries, evNaks, dedup,
                 dedupExpired, enrichedCount>>
  /\ UNCHANGED outsideIngest

\* checkDuplicate, first half: exists = await redis.get(key); a duplicate makes
\* processEvent return and start() ack the message
CheckDuplicateGet(r) ==
  /\ ing[r].pc = "get"
  /\ LET m == ing[r].cur IN
     IF msgEventId[m] \in dedup
     THEN /\ IngAck(r, m)
     ELSE /\ ing' = [ing EXCEPT ![r].pc = "setex"]
          /\ UNCHANGED evStatus
  /\ UNCHANGED <<msgEventId, msgValid, msgUserId, msgChannels, evDeliveries, evNaks, dedup, dedupExpired,
                 enrichedCount>>
  /\ UNCHANGED outsideIngest

\* checkDuplicate, second half: await redis.setex(key, DEDUP_TTL, '1')
CheckDuplicateSetex(r) ==
  /\ ing[r].pc = "setex"
  /\ dedup' = dedup \cup {msgEventId[ing[r].cur]}
  /\ ing' = [ing EXCEPT ![r].pc = "enrich"]
  /\ UNCHANGED <<msgEventId, msgValid, msgUserId, msgChannels, evStatus, evDeliveries, evNaks, dedupExpired,
                 enrichedCount>>
  /\ UNCHANGED outsideIngest

\* enrichEvent: the user lookup either answers (user found or not) or throws
EnrichEvent(r) ==
  /\ ing[r].pc = "enrich"
  /\ \E ok \in BOOLEAN :
       IF ok
       THEN /\ ing' = [ing EXCEPT ![r].pc = "publish"]
            /\ UNCHANGED <<evStatus, evNaks>>
       ELSE IngNak(r, ing[r].cur)
  /\ UNCHANGED <<msgEventId, msgValid, msgUserId, msgChannels, evDeliveries, dedup, dedupExpired, enrichedCount>>
  /\ UNCHANGED outsideIngest

\* publishEnrichedEvent: js.publish(ENRICHED_SUBJECT, data) succeeds or throws
PublishEnrichedEvent(r) ==
  /\ ing[r].pc = "publish"
  /\ \E ok \in BOOLEAN :
       IF ok
       THEN /\ enrichedCount' = [enrichedCount EXCEPT ![msgEventId[ing[r].cur]] = @ + 1]
            /\ ing' = [ing EXCEPT ![r].pc = "ack"]
            /\ UNCHANGED <<evStatus, evNaks>>
       ELSE /\ IngNak(r, ing[r].cur)
            /\ UNCHANGED enrichedCount
  /\ UNCHANGED <<msgEventId, msgValid, msgUserId, msgChannels, evDeliveries, dedup, dedupExpired>>
  /\ UNCHANGED outsideIngest

\* processEvent returned: msg.ack()
IngAckProcessed(r) ==
  /\ ing[r].pc = "ack"
  /\ IngAck(r, ing[r].cur)
  /\ UNCHANGED <<msgEventId, msgValid, msgUserId, msgChannels, evDeliveries, evNaks, dedup, dedupExpired,
                 enrichedCount>>
  /\ UNCHANGED outsideIngest

\* the replica process dies (or exits on SIGINT/SIGTERM) at an await; what it
\* held stays in flight, unacked
IngCrash(r) ==
  /\ ing[r].pc \notin {"fetch"}
  /\ ing' = [ing EXCEPT ![r] = IngIdle]
  /\ UNCHANGED <<msgEventId, msgValid, msgUserId, msgChannels, evStatus, evDeliveries, evNaks, dedup,
                 dedupExpired, enrichedCount>>
  /\ UNCHANGED outsideIngest

IngHeld(m) ==
  \E r \in Replicas : ing[r].cur = m
                      \/ \E i \in 1..Len(ing[r].batch) : ing[r].batch[i] = m

\* ack timeout of a message no replica holds any more: the broker redelivers
IngAckTimeout(m) ==
  /\ evStatus[m] = "inflight"
  /\ ~IngHeld(m)
  /\ evStatus' = [evStatus EXCEPT ![m] = "pending"]
  /\ UNCHANGED <<msgEventId, msgValid, msgUserId, msgChannels, evDeliveries, evNaks, dedup, dedupExpired,
                 enrichedCount, ing>>
  /\ UNCHANGED outsideIngest

\* the TTL of a dedup key (DEDUP_TTL = 3600 s) runs out
DedupExpire(e) ==
  /\ e \in dedup
  /\ dedup' = dedup \ {e}
  /\ dedupExpired' = dedupExpired \cup {e}
  /\ UNCHANGED <<msgEventId, msgValid, msgUserId, msgChannels, evStatus, evDeliveries, evNaks, enrichedCount, ing>>
  /\ UNCHANGED outsideIngest

NextIngest ==
  \/ \E r \in Replicas : IngFetch(r)
  \/ \E r \in Replicas : IngNext(r)
  \/ \E r \in Replicas : CheckDuplicateGet(r)
  \/ \E r \in Replicas : CheckDuplicateSetex(r)
  \/ \E r \in Replicas : EnrichEvent(r)
  \/ \E r \in Replicas : PublishEnrichedEvent(r)
  \/ \E r \in Replicas : IngAckProcessed(r)
  \/ \E r \in Replicas : IngCrash(r)
  \/ \E m \in EvMsgs : IngAckTimeout(m)
  \/ \E e \in EventIds : DedupExpire(e)

\* no id drawn yet
NoId == <<0, 0>>

\* nanoid(): an id that no row of the table has; ids are written <<message,
\* number of the row among the rows of that message>>
nanoid(table, m) == <<m, Cardinality({i \in DOMAIN table : i[1] = m}) + 1>>

\* db.insert(notificationDeliveries).values({ id, ... }): the table with the
\* new row under its primary key
InsertRow(table, id, row) ==
  [i \in DOMAIN table \cup {id} |-> IF i = id THEN row ELSE table[i]]

(***************************************************************************)
(*                           DELIVERY WORKER                               *)
(***************************************************************************)
\* a worker process at the top of its loop, with the messages of P on the
\* subject.  F gives consecutiveFailures: 0 in a process that has just
\* started; a process that has been running has a count below the threshold
\* left by its attempts on earlier messages, which are off the subject by now
WrkInitWith(F, P, K) ==
  /\ channel \in Channels
  /\ userKnown \in K
  /\ wpc = "loop"
  /\ batch = <<>>
  /\ cur = 0
  /\ consecutiveFailures \in F
  /\ circuitOpen = FALSE
  /\ dlvStatus = [m \in Rendered |-> IF m \in P THEN "pending" ELSE "unpublished"]
  /\ dlvDeliveries = [m \in Rendered |-> 0]
  /\ sendCount = [m \in Rendered |-> 0]
  /\ sentOk = [m \in Rendered |-> 0]
  /\ dlqCount = [m \in Rendered |-> 0]
  /\ rows = EmptyBag
  /\ deliveryId = NoId
  /\ rowOfId = <<>>
  /\ broadcasts = {}
  /\ taken = [m \in Rendered |-> 0]
  /\ acks = [m \in Rendered |-> 0]
  /\ naks = [m \in Rendered |-> 0]
  /\ terminalFail = {}
  /\ opens = 0

\* every event is of a user the users table holds
AllKnown == {[m \in Rendered |-> TRUE]}

\* the same, or the first message is of an event whose user_id matches no user
FirstMayBeUnknown == {[m \in Rendered |-> m # 1 \/ b] : b \in BOOLEAN}

\* a worker process that has just started, every message on the subject
WrkInit == WrkInitWith({0}, Rendered, FirstMayBeUnknown)

\* the worker state of a specification that does not run the worker
WrkQuiet ==
  /\ channel = "email"
  /\ userKnown = [m \in Rendered |-> TRUE]
  /\ wpc = "loop"
  /\ batch = <<>>
  /\ cur = 0
  /\ consecutiveFailures = 0
  /\ circuitOpen = FALSE
  /\ dlvStatus = [m \in Rendered |-> "pending"]
  /\ dlvDeliveries = [m \in Rendered |-> 0]
  /\ sendCount = [m \in Rendered |-> 0]
  /\ sentOk = [m \in Rendered |-> 0]
  /\ dlqCount = [m \in Rendered |-> 0]
  /\ rows = EmptyBag
  /\ deliveryId = NoId
  /\ rowOfId = <<>>
  /\ broadcasts = {}
  /\ taken = [m \in Rendered |-> 0]
  /\ acks = [m \in Rendered |-> 0]
  /\ naks = [m \in Rendered |-> 0]
  /\ terminalFail = {}
  /\ opens = 0

\* the ingestion state of a specification that does not run ingestion
IngQuiet ==
  /\ msgEventId = [m \in EvMsgs |-> 1]
  /\ msgValid = [m \in EvMsgs |-> TRUE]
  /\ msgUserId = [m \in EvMsgs |-> FirstRecipient.userId]
  /\ msgChannels = [m \in EvMsgs |-> FirstRecipient.channels]
  /\ evStatus = [m \in EvMsgs |-> "pending"]
  /\ evDeliveries = [m \in EvMsgs |-> 0]
  /\ evNaks = [m \in EvMsgs |-> 0]
  /\ dedup = {}
  /\ dedupExpired = {}
  /\ enrichedCount = [e \in EventIds |-> 0]
  /\ ing = [r \in Replicas |-> IngIdle]

\* a consumer created with one delivery more than the retry budget
ConsumerMaxDeliverOffByOne == MAX_RETRIES + 1

\* max_deliver of the durable consumer the worker creates (max_deliver: MAX_RETRIES)
ConsumerMaxDeliver == MAX_RETRIES

\* email, sms and push carry the circuit breaker and the retry backoff;
\* InAppWorker has neither
HasBreaker == channel # "in_app"

\* max_messages of consumer.fetch
BatchSize == IF channel = "in_app" THEN INAPP_BATCH ELSE WORKER_BATCH

\* msg.info.redeliveryCount: the deliveries of the message before this one
RedeliveryCount(m) == dlvDeliveries[m] - 1

\* const deliveryAttempt = msg.info?.redeliveryCount || 0, of the message in hand
deliveryAttempt == RedeliveryCount(cur)

InBatch(m) == \E i \in 1..Len(batch) : batch[i] = m

\* what the broker does with an unacked message that is NAKed or whose ack
\* wait ran out: redeliver it, unless max_deliver deliveries were made
Redeliver(m) ==
  IF dlvDeliveries[m] < ConsumerMaxDeliver THEN "pending" ELSE "dropped"

wrkHist == <<sendCount, dlqCount, rows, taken, acks, naks, terminalFail, opens>>

\* top of while (this.running): the circuit breaker test
WLoop ==
  /\ wpc = "loop"
  /\ IF HasBreaker /\ consecutiveFailures >= BREAKER_THRESHOLD
     THEN /\ circuitOpen' = TRUE
          /\ opens' = IF circuitOpen THEN opens ELSE opens + 1
          /\ wpc' = "cooldown"
     ELSE /\ wpc' = "fetch"
          /\ UNCHANGED <<circuitOpen, opens>>
  /\ UNCHANGED <<channel, userKnown, sentOk, deliveryId, rowOfId, broadcasts, batch, cur, consecutiveFailures, dlvStatus,
                 dlvDeliveries, sendCount, dlqCount, rows, taken, acks, naks,
                 terminalFail>>
  /\ UNCHANGED outsideWorker

\* a cooldown that resets the counter and forgets to close the breaker
WCooldownKeepsOpen ==
  /\ wpc = "cooldown"
  /\ consecutiveFailures' = 0
  /\ circuitOpen' = TRUE
  /\ wpc' = "fetch"
  /\ UNCHANGED <<channel, userKnown, sentOk, deliveryId, rowOfId, broadcasts, batch, cur, dlvStatus, dlvDeliveries>>
  /\ UNCHANGED wrkHist
  /\ UNCHANGED outsideWorker

\* await this.sleep(cooldown) returns: the counter and the breaker are reset
WCooldown ==
  /\ wpc = "cooldown"
  /\ consecutiveFailures' = 0
  /\ circuitOpen' = FALSE
  /\ wpc' = "fetch"
  /\ UNCHANGED <<channel, userKnown, sentOk, deliveryId, rowOfId, broadcasts, batch, cur, dlvStatus, dlvDeliveries>>
  /\ UNCHANGED wrkHist
  /\ UNCHANGED outsideWorker

\* consumer.fetch({ max_messages, expires: 5000 }): some (maybe none) of the
\* pending messages are delivered to the worker
WFetch ==
  /\ wpc = "fetch"
  /\ \E S \in SUBSET {m \in Rendered : dlvStatus[m] = "pending"} :
       /\ Cardinality(S) <= BatchSize
       /\ dlvStatus' = [m \in Rendered |-> IF m \in S THEN "inflight" ELSE dlvStatus[m]]
       /\ dlvDeliveries' = [m \in Rendered |-> IF m \in S THEN dlvDeliveries[m] + 1
                                                ELSE dlvDeliveries[m]]
       /\ batch' = SortedSeq(S)
  /\ wpc' = "next"
  /\ UNCHANGED <<channel, userKnown, sentOk, deliveryId, rowOfId, broadcasts, cur, consecutiveFailures, circuitOpen>>
  /\ UNCHANGED wrkHist
  /\ UNCHANGED outsideWorker

\* for await (const msg of messages): deliveryAttempt = redeliveryCount || 0
WNext ==
  /\ wpc = "next"
  /\ IF batch = <<>>
     THEN /\ wpc' = "loop"
          /\ UNCHANGED <<batch, cur, taken>>
     ELSE LET m == Head(batch)
              r == RedeliveryCount(m)
          IN /\ cur' = m
             /\ batch' = Tail(batch)
             /\ taken' = [taken EXCEPT ![m] = @ + 1]
             /\ wpc' = IF ~HasBreaker THEN "insert"
                       ELSE IF r > 0 THEN "backoff" ELSE "send"
  /\ UNCHANGED <<channel, userKnown, sentOk, deliveryId, rowOfId, broadcasts, consecutiveFailures, circuitOpen, dlvStatus, dlvDeliveries,
                 sendCount, dlqCount, rows, acks, naks, terminalFail, opens>>
  /\ UNCHANGED outsideWorker

\* const RETRY_DELAYS of the worker (milliseconds); InAppWorker has none
RETRY_DELAYS ==
  IF channel = "sms" THEN <<2000, 10000, 30000>> ELSE <<1000, 5000, 15000>>

\* Math.min
MathMin(a, b) == IF a <= b THEN a ELSE b

\* RETRY_DELAYS[Math.min(deliveryAttempt - 1, RETRY_DELAYS.length - 1)]
\* (the array is 0-based, the sequence 1-based)
RetryDelay(r) ==
  RETRY_DELAYS[MathMin(r - 1, Len(RETRY_DELAYS) - 1) + 1]

\* await this.sleep(RETRY_DELAYS[...]) returns
WBackoff ==
  /\ wpc = "backoff"
  /\ wpc' = "send"
  /\ UNCHANGED <<channel, userKnown, sentOk, deliveryId, rowOfId, broadcasts, batch, cur, consecutiveFailures, circuitOpen,
                 dlvStatus, dlvDeliveries>>
  /\ UNCHANGED wrkHist
  /\ UNCHANGED outsideWorker

\* sendEmail, sendSMS and sendPush throw when the rendered message carries no
\* address, phone number or push token, which is the case for an unknown
\* user.  Otherwise the call succeeds or fails
TransportOutcomes == IF userKnown[cur] THEN BOOLEAN ELSE {FALSE}

\* db.insert into notification_deliveries: user_id is a foreign key to
\* users(id), so the insert of a row for an unknown user is rejected
InsertOutcomes == IF userKnown[cur] THEN BOOLEAN ELSE {FALSE}

\* the catch block of the message loop, up to its first await:
\* consecutiveFailures++, then the DLQ branch or msg.nak()
Fail ==
  /\ consecutiveFailures' = IF HasBreaker THEN consecutiveFailures + 1
                            ELSE consecutiveFailures
  /\ IF deliveryAttempt + 1 >= MAX_RETRIES
     THEN /\ terminalFail' = terminalFail \cup {cur}
          /\ wpc' = "dlqPublish"
          /\ UNCHANGED <<cur, naks, dlvStatus>>
     ELSE /\ naks' = [naks EXCEPT ![cur] = @ + 1]
          /\ dlvStatus' = [dlvStatus EXCEPT ![cur] = Redeliver(cur)]
          /\ cur' = 0
          /\ wpc' = "next"
          /\ UNCHANGED terminalFail

\* deliver(): the transport adapter call (sendEmail, sendSMS, sendPush)
WSend ==
  /\ wpc = "send"
  /\ sendCount' = [sendCount EXCEPT ![cur] = @ + 1]
  /\ \E ok \in TransportOutcomes :
       IF ok
       THEN /\ sentOk' = [sentOk EXCEPT ![cur] = @ + 1]
            /\ wpc' = "insert"
            /\ UNCHANGED <<cur, consecutiveFailures, naks, dlvStatus, terminalFail>>
       ELSE /\ Fail
            /\ UNCHANGED sentOk
  /\ UNCHANGED <<channel, userKnown, deliveryId, rowOfId, broadcasts, batch, circuitOpen, dlvDeliveries, dlqCount, rows,
                 taken, acks, opens>>
  /\ UNCHANGED outsideWorker

\* a deliver() that catches the error of its own db.insert and returns
WInsertSwallowsError ==
  /\ wpc = "insert"
  /\ sendCount' = IF HasBreaker THEN sendCount
                  ELSE [sendCount EXCEPT ![cur] = @ + 1]
  /\ deliveryId' = nanoid(rowOfId, cur)
  /\ \E ok \in InsertOutcomes :
       /\ rows' = IF ok
                  THEN rows (+) SetToBag({[msg |-> cur, status |-> "delivered",
                                  attemptCount |-> deliveryAttempt + 1, error |-> FALSE]})
                  ELSE rows
       /\ rowOfId' = IF ok
                     THEN InsertRow(rowOfId, deliveryId',
                                    [msg |-> cur, status |-> "delivered",
                                     attemptCount |-> deliveryAttempt + 1,
                                     error |-> FALSE])
                     ELSE rowOfId
       /\ wpc' = IF HasBreaker THEN "ack" ELSE "broadcast"
       /\ UNCHANGED <<cur, consecutiveFailures, naks, dlvStatus, terminalFail>>
  /\ UNCHANGED <<channel, userKnown, sentOk, broadcasts, batch, circuitOpen, dlvDeliveries, dlqCount,
                 taken, acks, opens>>
  /\ UNCHANGED outsideWorker

\* deliver(): db.insert of the delivered row, attemptCount = deliveryAttempt + 1.
\* In InAppWorker the insert is the delivery itself and the broadcast follows
WInsert ==
  /\ wpc = "insert"
  /\ sendCount' = IF HasBreaker THEN sendCount
                  ELSE [sendCount EXCEPT ![cur] = @ + 1]
  /\ deliveryId' = nanoid(rowOfId, cur)
  /\ \E ok \in InsertOutcomes :
       IF ok
       THEN /\ rows' = rows (+) SetToBag({[msg |-> cur, status |-> "delivered",
                                     attemptCount |-> deliveryAttempt + 1, error |-> FALSE]})
            /\ rowOfId' = InsertRow(rowOfId, deliveryId',
                                     [msg |-> cur, status |-> "delivered",
                                      attemptCount |-> deliveryAttempt + 1,
                                      error |-> FALSE])
            /\ wpc' = IF HasBreaker THEN "ack" ELSE "broadcast"
            /\ UNCHANGED <<cur, consecutiveFailures, naks, dlvStatus, terminalFail>>
       ELSE /\ Fail
            /\ UNCHANGED <<rows, rowOfId>>
  /\ UNCHANGED <<channel, userKnown, sentOk, broadcasts, batch, circuitOpen, dlvDeliveries, dlqCount,
                 taken, acks, opens>>
  /\ UNCHANGED outsideWorker

\* a broadcast that draws an id of its own instead of using the row's
WBroadcastDrawsId ==
  /\ wpc = "broadcast"
  /\ \E ok \in BOOLEAN :
       IF ok
       THEN /\ broadcasts' = broadcasts \cup {[id |-> nanoid(rowOfId, cur), msg |-> cur]}
            /\ wpc' = "ack"
            /\ UNCHANGED <<cur, consecutiveFailures, naks, dlvStatus, terminalFail>>
       ELSE /\ Fail
            /\ UNCHANGED broadcasts
  /\ UNCHANGED <<channel, userKnown, sentOk, deliveryId, rowOfId, batch, circuitOpen, dlvDeliveries, sendCount,
                 dlqCount, rows, taken, acks, opens>>
  /\ UNCHANGED outsideWorker

\* InAppWorker.deliver(): redis.publish('ws:notifications', ...)
WBroadcast ==
  /\ wpc = "broadcast"
  /\ \E ok \in BOOLEAN :
       IF ok
       THEN /\ broadcasts' = broadcasts \cup {[id |-> deliveryId, msg |-> cur]}
            /\ wpc' = "ack"
            /\ UNCHANGED <<cur, consecutiveFailures, naks, dlvStatus, terminalFail>>
       ELSE /\ Fail
            /\ UNCHANGED broadcasts
  /\ UNCHANGED <<channel, userKnown, sentOk, deliveryId, rowOfId, batch, circuitOpen, dlvDeliveries, sendCount,
                 dlqCount, rows, taken, acks, opens>>
  /\ UNCHANGED outsideWorker

\* deliver() returned: msg.ack(); this.consecutiveFailures = 0
WAck ==
  /\ wpc = "ack"
  /\ acks' = [acks EXCEPT ![cur] = @ + 1]
  /\ dlvStatus' = [dlvStatus EXCEPT ![cur] = "acked"]
  /\ consecutiveFailures' = 0
  /\ cur' = 0
  /\ wpc' = "next"
  /\ UNCHANGED <<channel, userKnown, sentOk, deliveryId, rowOfId, broadcasts, batch, circuitOpen, dlvDeliveries, sendCount,
                 dlqCount, rows, taken, naks, terminalFail, opens>>
  /\ UNCHANGED outsideWorker

\* an exception that leaves the message loop: the catch block around fetch logs
\* it and the while loop goes round; the rest of the batch is never taken and
\* the message in hand is neither acked nor NAKed
OuterCatch ==
  /\ batch' = <<>>
  /\ cur' = 0
  /\ wpc' = "loop"

\* moveToDLQ(): js.publish(DLQ_SUBJECT, ...)
WDlqPublish ==
  /\ wpc = "dlqPublish"
  /\ \E ok \in BOOLEAN :
       IF ok
       THEN /\ dlqCount' = [dlqCount EXCEPT ![cur] = @ + 1]
            /\ wpc' = IF HasBreaker THEN "dlqInsert" ELSE "dlqAck"
            /\ UNCHANGED <<batch, cur>>
       ELSE /\ OuterCatch
            /\ UNCHANGED dlqCount
  /\ UNCHANGED <<channel, userKnown, sentOk, deliveryId, rowOfId, broadcasts, consecutiveFailures, circuitOpen, dlvStatus,
                 dlvDeliveries, sendCount, rows, taken, acks, naks, terminalFail,
                 opens>>
  /\ UNCHANGED outsideWorker

\* moveToDLQ() of email, sms and push: db.insert of the failed row
WDlqInsert ==
  /\ wpc = "dlqInsert"
  /\ \E ok \in InsertOutcomes :
       IF ok
       THEN /\ rows' = rows (+) SetToBag({[msg |-> cur, status |-> "failed",
                                     attemptCount |-> MAX_RETRIES, error |-> TRUE]})
            /\ rowOfId' = InsertRow(rowOfId, nanoid(rowOfId, cur),
                                     [msg |-> cur, status |-> "failed",
                                      attemptCount |-> MAX_RETRIES, error |-> TRUE])
            /\ wpc' = "dlqAck"
            /\ UNCHANGED <<batch, cur>>
       ELSE /\ OuterCatch
            /\ UNCHANGED <<rows, rowOfId>>
  /\ UNCHANGED <<channel, userKnown, sentOk, deliveryId, broadcasts, consecutiveFailures, circuitOpen, dlvStatus,
                 dlvDeliveries, sendCount, dlqCount, taken, acks, naks, terminalFail,
                 opens>>
  /\ UNCHANGED outsideWorker

\* moveToDLQ() returned: msg.ack()
WDlqAck ==
  /\ wpc = "dlqAck"
  /\ acks' = [acks EXCEPT ![cur] = @ + 1]
  /\ dlvStatus' = [dlvStatus EXCEPT ![cur] = "acked"]
  /\ cur' = 0
  /\ wpc' = "next"
  /\ UNCHANGED <<channel, userKnown, sentOk, deliveryId, rowOfId, broadcasts, batch, consecutiveFailures, circuitOpen,
                 dlvDeliveries, sendCount, dlqCount, rows, taken, naks, terminalFail,
                 opens>>
  /\ UNCHANGED outsideWorker

\* the worker process dies (or exits on a signal) and a new one starts: the
\* in-process state is lost, what it held stays in flight and unacked
WCrash ==
  /\ wpc # "loop" \/ consecutiveFailures > 0
  /\ wpc' = "loop"
  /\ batch' = <<>>
  /\ cur' = 0
  /\ consecutiveFailures' = 0
  /\ circuitOpen' = FALSE
  /\ UNCHANGED <<channel, userKnown, sentOk, deliveryId, rowOfId, broadcasts, dlvStatus, dlvDeliveries, sendCount, dlqCount,
                 rows, taken, acks, naks, terminalFail, opens>>
  /\ UNCHANGED outsideWorker

\* the ack wait of a message the worker no longer holds runs out
WAckTimeout(m) ==
  /\ dlvStatus[m] = "inflight"
  /\ cur # m
  /\ ~InBatch(m)
  /\ dlvStatus' = [dlvStatus EXCEPT ![m] = Redeliver(m)]
  /\ UNCHANGED <<channel, userKnown, sentOk, deliveryId, rowOfId, broadcasts, wpc, batch, cur, consecutiveFailures, circuitOpen,
                 dlvDeliveries>>
  /\ UNCHANGED wrkHist
  /\ UNCHANGED outsideWorker

NextWorker ==
  \/ WLoop
  \/ WCooldown
  \/ WFetch
  \/ WNext
  \/ WBackoff
  \/ WSend
  \/ WInsert
  \/ WBroadcast
  \/ WAck
  \/ WDlqPublish
  \/ WDlqInsert
  \/ WDlqAck
  \/ \E m \in Rendered : WAckTimeout(m)

\* the worker with process deaths and restarts
(***************************************************************************)
(*                             QUIET HOURS                                 *)
(***************************************************************************)
SecondsPerDay == 24 * 60 * 60

\* the times of day the rule is tried on
QhTimes == {(k * QhStride + j * QhJitter) % SecondsPerDay :
              k \in 0..(NQhTimes - 1), j \in 0..1}

getUTCHours(t) == t \div 3600
getUTCMinutes(t) == (t % 3600) \div 60
getUTCSeconds(t) == t % 60

\* strings are sequences of character codes
Zero == 48
Colon == 58

\* Number.prototype.toString() of a number below 100
toString(n) == IF n < 10 THEN <<Zero + n>> ELSE <<Zero + (n \div 10), Zero + (n % 10)>>

\* String.prototype.padStart(2, '0')
padStart2(str) == IF Len(str) < 2 THEN <<Zero>> \o str ELSE str

\* a time of day as the store returns a `time` column: 'HH:MM:SS'
TimeColumn(t) ==
  padStart2(toString(getUTCHours(t))) \o <<Colon>> \o
  padStart2(toString(getUTCMinutes(t))) \o <<Colon>> \o
  padStart2(toString(getUTCSeconds(t)))

\* the template literal of isChannelAllowed, line 156: hours, minutes, ':00'
currentTime(now) ==
  padStart2(toString(getUTCHours(now))) \o <<Colon>> \o
  padStart2(toString(getUTCMinutes(now))) \o <<Colon, Zero, Zero>>

RECURSIVE StrLess(_, _)
\* a < b on strings: code unit by code unit, a proper prefix is smaller
StrLess(a, b) ==
  IF b = <<>> THEN FALSE
  ELSE IF a = <<>> THEN TRUE
  ELSE IF Head(a) # Head(b) THEN Head(a) < Head(b)
  ELSE StrLess(Tail(a), Tail(b))

\* a >= b on strings
StrGeq(a, b) == ~StrLess(a, b)

\* quiet hours whose end is included in the window
isInQuietHoursEndIncluded(cur_time, start, end) ==
  IF StrLess(end, start)
  THEN StrGeq(cur_time, start) \/ StrGeq(end, cur_time)
  ELSE StrGeq(cur_time, start) /\ StrGeq(end, cur_time)

\* PreferenceEngine.isInQuietHours(currentTime, start, end)
isInQuietHours(cur_time, start, end) ==
  IF StrLess(end, start)
  THEN StrGeq(cur_time, start) \/ StrLess(cur_time, end)
  ELSE StrGeq(cur_time, start) /\ StrLess(cur_time, end)

\* rule 3 of isChannelAllowed for a preference with both fields set, at the
\* time of day `now`: true when the rule denies
Rule3Denies(now, start, end) ==
  isInQuietHours(currentTime(now), TimeColumn(start), TimeColumn(end))

QhInit ==
  /\ qhNow \in QhTimes
  /\ qhStart \in QhTimes
  /\ qhEnd \in QhTimes
  /\ qhPc = "input"
  /\ qhResult = FALSE
  /\ qhDenied = FALSE

\* the quiet-hours state of a specification that does not run the rule
QhQuiet ==
  /\ qhNow = 0
  /\ qhStart = 0
  /\ qhEnd = 0
  /\ qhPc = "input"
  /\ qhResult = FALSE
  /\ qhDenied = FALSE

\* a call of isInQuietHours with the three times given as HH:MM:SS
QhCall ==
  /\ qhPc = "input"
  /\ qhResult' = isInQuietHours(TimeColumn(qhNow), TimeColumn(qhStart), TimeColumn(qhEnd))
  /\ qhPc' = "called"
  /\ UNCHANGED <<qhNow, qhStart, qhEnd, qhDenied>>
  /\ UNCHANGED outsideQuiet

\* rule 3 of isChannelAllowed (lines 153-162) at the time of day qhNow
QhRule3 ==
  /\ qhPc = "called"
  /\ qhDenied' = Rule3Denies(qhNow, qhStart, qhEnd)
  /\ qhPc' = "ruled"
  /\ UNCHANGED <<qhNow, qhStart, qhEnd, qhResult>>
  /\ UNCHANGED outsideQuiet

NextQuiet ==
  \/ QhCall
  \/ QhRule3

(***************************************************************************)
(*                          PREFERENCE FILTER                              *)
(***************************************************************************)
\* the channels lists an event may carry: z.array(channelSchema).min(1)
ChannelLists == UNION {[1..n -> PrefChannels] : n \in 1..MaxChannels}

\* no row for (user, channel, eventType), or the row's enabled flag and
\* whether both of its quiet-hours fields are set
NoRow == [exists |-> FALSE, enabled |-> FALSE, quiet |-> FALSE]
PrefRows == {NoRow} \cup {[exists |-> TRUE, enabled |-> e, quiet |-> q] : e, q \in BOOLEAN}

\* the quiet window of a row that has one
QuietRowStart == QhStride % SecondsPerDay
QuietRowEnd == QhJitter % SecondsPerDay

PfIdle == [pc |-> "fetch", batch |-> <<>>, cur |-> 0, idx |-> 0, allowed |-> <<>>,
           count |-> 0]

NoEvals == [passed |-> 0, reached4 |-> 0, allowed |-> 0]
NoEval == [chan |-> "", rule |-> 0, count |-> 0]

\* the evaluations a key has seen in the running window before the messages
\* of the model arrive: w of them got past rules 1 to 3 (none when the
\* lookup denies each time), leaving the counter the code leaves
EvalsBefore(row, type, w) ==
  IF (~row.exists /\ type = "marketing") \/ (row.exists /\ ~row.enabled)
  THEN NoEvals
  ELSE [passed |-> w, reached4 |-> IF row.exists THEN w ELSE 0,
        allowed |-> w]

\* a replica that has not been started
PfStopped == [PfIdle EXCEPT !.pc = "stopped"]

\* the filter with the messages pending.  W: the evaluations before, at most
\* DEFAULT_RATE_LIMIT so that all of them were allowed; R: the replicas that
\* run; L: the channels lists and P: the preference tables to draw from
PrefInitWith(W, R, L, P) ==
  /\ enrType \in EventTypes
  /\ enrChannels \in L
  /\ prefRow \in P
  /\ enrStatus = [m \in Enriched |-> "pending"]
  /\ enrDeliveries = [m \in Enriched |-> 0]
  /\ routed = [m \in Enriched |-> [c \in PrefChannels |-> 0]]
  /\ charged = [m \in Enriched |-> [c \in PrefChannels |-> 0]]
  /\ pf = [r \in PrefReplicas |-> IF r \in R THEN PfIdle ELSE PfStopped]
  /\ \E w \in W :
       /\ evalHist = [c \in PrefChannels |-> EvalsBefore(prefRow[c], enrType, w)]
       /\ rateCount = [c \in PrefChannels |-> evalHist[c].reached4]
       /\ rateTtl = [c \in PrefChannels |-> evalHist[c].reached4 >= 1]
  /\ lastEval = NoEval

\* a window that is new, or one evaluation short of the limit
WarmEvals == {0, DEFAULT_RATE_LIMIT - 1}

\* the channels lists up to a renaming of the channels, which the filter
\* uses as keys only
ChannelListsFromFirst == {l \in ChannelLists : l[1] = ChannelOrder[1]}

\* NPrefSolo replicas, every channels list and every preference table
PrefInit ==
  PrefInitWith(WarmEvals, 1..NPrefSolo, ChannelListsFromFirst,
               [PrefChannels -> PrefRows])

\* every replica, events for one channel, the same preference on each channel
PrefInitRace ==
  PrefInitWith(WarmEvals, PrefReplicas, {<<ChannelOrder[1]>>},
               {[c \in PrefChannels |-> row] : row \in PrefRows})

\* the preference-filter state of a specification that does not run it
PrefQuiet ==
  /\ enrType = "account"
  /\ enrChannels = <<"email">>
  /\ prefRow = [c \in PrefChannels |-> NoRow]
  /\ enrStatus = [m \in Enriched |-> "pending"]
  /\ enrDeliveries = [m \in Enriched |-> 0]
  /\ rateCount = [c \in PrefChannels |-> 0]
  /\ rateTtl = [c \in PrefChannels |-> FALSE]
  /\ routed = [m \in Enriched |-> [c \in PrefChannels |-> 0]]
  /\ charged = [m \in Enriched |-> [c \in PrefChannels |-> 0]]
  /\ pf = [r \in PrefReplicas |-> PfIdle]
  /\ evalHist = [c \in PrefChannels |-> NoEvals]
  /\ lastEval = NoEval

\* consumer.fetch({ max_messages: 10, expires: 5000 }) (start, line 63)
PrefFetch(r) ==
  /\ pf[r].pc = "fetch"
  /\ \E S \in SUBSET {m \in Enriched : enrStatus[m] = "pending"
                                        /\ enrDeliveries[m] < PrefDeliveryCap} :
       /\ S # {}
       /\ Cardinality(S) <= PREF_BATCH
       /\ enrStatus' = [m \in Enriched |-> IF m \in S THEN "inflight" ELSE enrStatus[m]]
       /\ enrDeliveries' = [m \in Enriched |-> IF m \in S THEN enrDeliveries[m] + 1
                                                ELSE enrDeliveries[m]]
       /\ pf' = [pf EXCEPT ![r] = [PfIdle EXCEPT !.pc = "next", !.batch = SortedSeq(S)]]
  /\ UNCHANGED <<enrType, enrChannels, prefRow, rateCount, rateTtl,
                 routed, evalHist, lastEval>>
  /\ UNCHANGED charged
  /\ UNCHANGED outsidePref

\* the next message of the batch (start, line 64) and the start of
\* processEvent up to the first select of isChannelAllowed (lines 87-97, 129)
PrefNext(r) ==
  /\ pf[r].pc = "next"
  /\ IF pf[r].batch = <<>>
     THEN pf' = [pf EXCEPT ![r] = PfIdle]
     ELSE pf' = [pf EXCEPT ![r] = [PfIdle EXCEPT !.pc = "select",
                                                 !.batch = Tail(pf[r].batch),
                                                 !.cur = Head(pf[r].batch),
                                                 !.idx = 1]]
  /\ UNCHANGED <<enrType, enrChannels, prefRow, enrStatus, enrDeliveries,
                 rateCount, rateTtl, routed, evalHist, lastEval>>
  /\ UNCHANGED charged
  /\ UNCHANGED outsidePref

\* msg.ack() (start, line 67) and msg.nak() (start, line 70)
PrefAck(r) == enrStatus' = [enrStatus EXCEPT ![pf[r].cur] = "acked"]

PrefNak(r) == enrStatus' = [enrStatus EXCEPT ![pf[r].cur] = "pending"]

\* the replica takes the next message of its batch
PfToNext(r) == [PfIdle EXCEPT !.pc = "next", !.batch = pf[r].batch]

\* isChannelAllowed has returned `ok` for the channel at idx (rule: 0 when
\* allowed, else the rule that denied; cnt: what INCR returned, 0 if not
\* called): processEvent from line 98 to its next await.  After the last
\* channel an empty allowedChannels returns and the message is acked
\* (lines 107-110, 67); otherwise the publish loop starts (line 113)
PrefDecided(r, ok, rule, cnt) ==
  LET c == enrChannels[pf[r].idx]
      al == IF ok THEN Append(pf[r].allowed, c) ELSE pf[r].allowed
  IN /\ lastEval' = [chan |-> c, rule |-> rule, count |-> cnt]
     /\ IF pf[r].idx < Len(enrChannels)
        THEN /\ pf' = [pf EXCEPT ![r].pc = "select", ![r].idx = @ + 1,
                                 ![r].allowed = al, ![r].count = 0]
             /\ UNCHANGED enrStatus
        ELSE IF al = <<>>
        THEN /\ PrefAck(r)
             /\ pf' = [pf EXCEPT ![r] = PfToNext(r)]
        ELSE /\ pf' = [pf EXCEPT ![r].pc = "publish", ![r].idx = 1,
                                 ![r].allowed = al, ![r].count = 0]
             /\ UNCHANGED enrStatus

\* a lookup that finds no row allows every event type
NoRowResultAllowsAll(type) == TRUE

\* `return eventType !== 'marketing'` (line 143)
NoRowResult(type) == type # "marketing"

\* a disabled row is let through when it has quiet hours
Rule2DeniesUnlessQuietSet(row) == ~row.enabled /\ ~row.quiet

\* `if (!pref.enabled)` (line 149)
Rule2Denies(row) == ~row.enabled

\* isChannelAllowed from the return of the select (line 139) to its return
\* or to the call of redis.incr (line 166): rules 1, 2 and 3
PrefSelect(r) ==
  /\ pf[r].pc = "select"
  /\ LET c == enrChannels[pf[r].idx]
         row == prefRow[c]
         hist == evalHist[c]
     IN IF ~row.exists
        THEN LET ok == NoRowResult(enrType)
             IN /\ PrefDecided(r, ok, IF ok THEN 0 ELSE 1, 0)
                /\ evalHist' = [evalHist EXCEPT ![c] =
                      IF ok THEN [hist EXCEPT !.passed = @ + 1, !.allowed = @ + 1]
                      ELSE hist]
        ELSE IF Rule2Denies(row)
        THEN /\ PrefDecided(r, FALSE, 2, 0)
             /\ UNCHANGED evalHist
        ELSE \E now \in QhTimes :
               IF row.quiet /\ Rule3Denies(now, QuietRowStart, QuietRowEnd)
               THEN /\ PrefDecided(r, FALSE, 3, 0)
                    /\ UNCHANGED evalHist
               ELSE /\ pf' = [pf EXCEPT ![r].pc = "incr"]
                    /\ UNCHANGED <<enrStatus, evalHist, lastEval>>
  /\ UNCHANGED <<enrType, enrChannels, prefRow, enrDeliveries, rateCount, rateTtl, routed>>
  /\ UNCHANGED charged
  /\ UNCHANGED outsidePref

\* the limit test after the counter was read (lines 173-180)
Rule4Allows(cnt) == ~(cnt > DEFAULT_RATE_LIMIT)

\* a counter that goes up by two on each evaluation
PrefIncrTwice(r) ==
  /\ pf[r].pc = "incr"
  /\ LET c == enrChannels[pf[r].idx]
         n == rateCount[c] + 2
         ok == Rule4Allows(n)
     IN /\ rateCount' = [rateCount EXCEPT ![c] = n]
        /\ evalHist' = [evalHist EXCEPT ![c].passed = @ + 1, ![c].reached4 = @ + 1,
                                        ![c].allowed = IF ok THEN @ + 1 ELSE @]
        /\ PrefDecided(r, ok, IF ok THEN 0 ELSE 4, n)
  /\ UNCHANGED <<enrType, enrChannels, prefRow, enrDeliveries, rateTtl, routed>>
  /\ charged' = [charged EXCEPT ![pf[r].cur][enrChannels[pf[r].idx]] = @ + 1]
  /\ UNCHANGED outsidePref

\* redis.incr(rateLimitKey) (line 166), atomic in the store, and the code up
\* to the call of redis.expire (line 170) or to the return (lines 173-180)
PrefIncr(r) ==
  /\ pf[r].pc = "incr"
  /\ LET c == enrChannels[pf[r].idx]
         n == rateCount[c] + 1
         ok == Rule4Allows(n)
     IN /\ rateCount' = [rateCount EXCEPT ![c] = n]
        /\ IF n = 1
           THEN /\ pf' = [pf EXCEPT ![r].pc = "expire", ![r].count = n]
                /\ evalHist' = [evalHist EXCEPT ![c].passed = @ + 1, ![c].reached4 = @ + 1]
                /\ UNCHANGED <<enrStatus, lastEval>>
           ELSE /\ PrefDecided(r, ok, IF ok THEN 0 ELSE 4, n)
                /\ evalHist' = [evalHist EXCEPT ![c].passed = @ + 1, ![c].reached4 = @ + 1,
                                                ![c].allowed = IF ok THEN @ + 1 ELSE @]
  /\ UNCHANGED <<enrType, enrChannels, prefRow, enrDeliveries, rateTtl, routed>>
  /\ charged' = [charged EXCEPT ![pf[r].cur][enrChannels[pf[r].idx]] = @ + 1]
  /\ UNCHANGED outsidePref

\* redis.expire(rateLimitKey, RATE_LIMIT_WINDOW) (line 170) returns, then
\* lines 173-180; or it throws, and the message is NAKed (start, line 70)
PrefExpire(r) ==
  /\ pf[r].pc = "expire"
  /\ LET c == enrChannels[pf[r].idx]
         ok == Rule4Allows(pf[r].count)
     IN \/ /\ rateTtl' = [rateTtl EXCEPT ![c] = TRUE]
           /\ PrefDecided(r, ok, IF ok THEN 0 ELSE 4, pf[r].count)
           /\ evalHist' = [evalHist EXCEPT ![c].allowed = IF ok THEN @ + 1 ELSE @]
        \/ /\ PrefNak(r)
           /\ pf' = [pf EXCEPT ![r] = PfToNext(r)]
           /\ UNCHANGED <<rateTtl, evalHist, lastEval>>
  /\ UNCHANGED <<enrType, enrChannels, prefRow, enrDeliveries, rateCount, routed>>
  /\ UNCHANGED charged
  /\ UNCHANGED outsidePref

\* publishToChannel for the allowed channel at idx (lines 113-115, 192-201):
\* the publish succeeds, and after the last one the message is acked
\* (line 67); or it throws, and the message is NAKed (line 70)
PrefPublish(r) ==
  /\ pf[r].pc = "publish"
  /\ LET c == pf[r].allowed[pf[r].idx]
         m == pf[r].cur
     IN \/ /\ routed' = [routed EXCEPT ![m][c] = @ + 1]
           /\ IF pf[r].idx < Len(pf[r].allowed)
              THEN /\ pf' = [pf EXCEPT ![r].idx = @ + 1]
                   /\ UNCHANGED enrStatus
              ELSE /\ PrefAck(r)
                   /\ pf' = [pf EXCEPT ![r] = PfToNext(r)]
        \/ /\ PrefNak(r)
           /\ pf' = [pf EXCEPT ![r] = PfToNext(r)]
           /\ UNCHANGED routed
  /\ UNCHANGED <<enrType, enrChannels, prefRow, enrDeliveries, rateCount, rateTtl,
                 evalHist, lastEval>>
  /\ UNCHANGED charged
  /\ UNCHANGED outsidePref

NextPref ==
  \/ \E r \in PrefReplicas : PrefFetch(r)
  \/ \E r \in PrefReplicas : PrefNext(r)
  \/ \E r \in PrefReplicas : PrefSelect(r)
  \/ \E r \in PrefReplicas : PrefIncr(r)
  \/ \E r \in PrefReplicas : PrefExpire(r)
  \/ \E r \in PrefReplicas : PrefPublish(r)

(***************************************************************************)
(*                               ROUTER                                    *)
(***************************************************************************)
\* no template row; a template that renders; a template one of whose
\* variables is not a valid regular expression source (new RegExp throws)
Templates == {"none", "ok", "bad"}

RtrIdle == [pc |-> "fetch", batch |-> <<>>, cur |-> 0]

\* nothing stored on notifications.delivery.<channel> for the message yet
NoRendered == [subject |-> <<>>, body |-> <<>>]

\* the fallback of processEvent (lines 141-147):
\* subject: `Notification: ${event.eventType}`, body: JSON.stringify(event.data)
FallbackRendered ==
  [subject |-> <<"Notification: ", "event.eventType">>,
   body |-> <<"JSON.stringify", "event.data">>]

\* what renderTemplate returned (lines 152-161)
TemplateRendered ==
  [subject |-> <<"rendered.subject">>, body |-> <<"rendered.body">>]

RtrInit ==
  /\ rtrTemplate \in Templates
  /\ rtdStatus = [m \in Routed |-> "pending"]
  /\ rtdDeliveries = [m \in Routed |-> 0]
  /\ renderedCount = [m \in Routed |-> 0]
  /\ rtr = RtrIdle
  /\ lastRendered = [m \in Routed |-> NoRendered]
  /\ rtrNakCause = [m \in Routed |-> {}]

\* the router state of a specification that does not run the router
RtrQuiet ==
  /\ rtrTemplate = "none"
  /\ rtdStatus = [m \in Routed |-> "pending"]
  /\ rtdDeliveries = [m \in Routed |-> 0]
  /\ renderedCount = [m \in Routed |-> 0]
  /\ rtr = RtrIdle
  /\ lastRendered = [m \in Routed |-> NoRendered]
  /\ rtrNakCause = [m \in Routed |-> {}]

\* consumer.fetch({ max_messages: 5, expires: 5000 }) (processChannel, line 97)
RtrFetch ==
  /\ rtr.pc = "fetch"
  /\ \E S \in SUBSET {m \in Routed : rtdStatus[m] = "pending"
                                      /\ rtdDeliveries[m] < RtrDeliveryCap} :
       /\ S # {}
       /\ Cardinality(S) <= ROUTER_BATCH
       /\ rtdStatus' = [m \in Routed |-> IF m \in S THEN "inflight" ELSE rtdStatus[m]]
       /\ rtdDeliveries' = [m \in Routed |-> IF m \in S THEN rtdDeliveries[m] + 1
                                              ELSE rtdDeliveries[m]]
       /\ rtr' = [pc |-> "next", batch |-> SortedSeq(S), cur |-> 0]
  /\ UNCHANGED <<rtrTemplate, renderedCount, lastRendered, rtrNakCause>>
  /\ UNCHANGED outsideRouter

\* the next message of the batch (line 98) and processEvent up to the select
\* of fetchTemplate (lines 122-134, 175)
RtrNext ==
  /\ rtr.pc = "next"
  /\ IF rtr.batch = <<>>
     THEN rtr' = RtrIdle
     ELSE rtr' = [pc |-> "template", batch |-> Tail(rtr.batch), cur |-> Head(rtr.batch)]
  /\ UNCHANGED <<rtrTemplate, rtdStatus, rtdDeliveries, renderedCount, lastRendered, rtrNakCause>>
  /\ UNCHANGED outsideRouter

\* msg.nak() in the catch block (processChannel, lines 102-109)
RtrNak(thrower) ==
  /\ rtdStatus' = [rtdStatus EXCEPT ![rtr.cur] = "pending"]
  /\ rtrNakCause' = [rtrNakCause EXCEPT ![rtr.cur] = @ \cup {thrower}]
  /\ rtr' = [rtr EXCEPT !.pc = "next", !.cur = 0]

\* a processEvent that throws when fetchTemplate finds no row
RtrFetchTemplateThrowsOnMissing ==
  /\ rtr.pc = "template"
  /\ \/ /\ rtrTemplate = "ok"
        /\ rtr' = [rtr EXCEPT !.pc = "publish"]
        /\ UNCHANGED <<rtdStatus, rtrNakCause>>
     \/ /\ rtrTemplate = "none"
        /\ RtrNak("processEvent")
     \/ /\ rtrTemplate = "bad"
        /\ RtrNak("renderTemplate")
     \/ RtrNak("fetchTemplate")
  /\ UNCHANGED <<rtrTemplate, rtdDeliveries, renderedCount, lastRendered>>
  /\ UNCHANGED outsideRouter

\* the select of fetchTemplate returns (lines 175-195).  Without a row the
\* fallback is published (lines 135-147), with one renderTemplate runs
\* (lines 152, 197-228), which throws on a bad variable name; the select may
\* throw as well.  A throw NAKs the message
RtrFetchTemplate ==
  /\ rtr.pc = "template"
  /\ \/ /\ rtrTemplate \in {"none", "ok"}
        /\ rtr' = [rtr EXCEPT !.pc = "publish"]
        /\ UNCHANGED <<rtdStatus, rtrNakCause>>
     \/ /\ rtrTemplate = "bad"
        /\ RtrNak("renderTemplate")
     \/ RtrNak("fetchTemplate")
  /\ UNCHANGED <<rtrTemplate, rtdDeliveries, renderedCount, lastRendered>>
  /\ UNCHANGED outsideRouter

\* publishRendered (lines 230-246): the broker stores the message on
\* notifications.delivery.<channel>, or the publish fails before that and
\* throws
RtrPublishRendered ==
  /\ rtr.pc = "publish"
  /\ \/ /\ renderedCount' = [renderedCount EXCEPT ![rtr.cur] = @ + 1]
        /\ lastRendered' = [lastRendered EXCEPT ![rtr.cur] =
                              IF rtrTemplate = "none" THEN FallbackRendered
                              ELSE TemplateRendered]
        /\ rtr' = [rtr EXCEPT !.pc = "puback"]
        /\ UNCHANGED <<rtdStatus, rtrNakCause>>
     \/ /\ RtrNak("publishRendered")
        /\ UNCHANGED <<renderedCount, lastRendered>>
  /\ UNCHANGED <<rtrTemplate, rtdDeliveries>>
  /\ UNCHANGED outsideRouter

\* `await this.js.publish` returns with the broker's acknowledgement and the
\* routed message is acked (line 101); or the acknowledgement does not
\* arrive, publish throws and the message is NAKed
RtrPublishReturns ==
  /\ rtr.pc = "puback"
  /\ \/ /\ rtdStatus' = [rtdStatus EXCEPT ![rtr.cur] = "acked"]
        /\ rtr' = [rtr EXCEPT !.pc = "next", !.cur = 0]
        /\ UNCHANGED rtrNakCause
     \/ RtrNak("publishRendered")
  /\ UNCHANGED <<rtrTemplate, rtdDeliveries, renderedCount, lastRendered>>
  /\ UNCHANGED outsideRouter

\* SIGINT or SIGTERM: stop() and process.exit(0) (lines 253-261) while
\* messages are held; a new process starts
RtrExit ==
  /\ rtr.pc # "fetch"
  /\ rtr' = RtrIdle
  /\ UNCHANGED <<rtrTemplate, rtdStatus, rtdDeliveries, renderedCount, lastRendered, rtrNakCause>>
  /\ UNCHANGED outsideRouter

RtrHeld(m) == rtr.cur = m \/ \E i \in 1..Len(rtr.batch) : rtr.batch[i] = m

\* the ack wait of a message no process holds runs out: it is redelivered
RtrAckTimeout(m) ==
  /\ rtdStatus[m] = "inflight"
  /\ ~RtrHeld(m)
  /\ rtdStatus' = [rtdStatus EXCEPT ![m] = "pending"]
  /\ UNCHANGED <<rtrTemplate, rtdDeliveries, renderedCount, rtr, lastRendered, rtrNakCause>>
  /\ UNCHANGED outsideRouter

NextRouter ==
  \/ RtrFetch
  \/ RtrNext
  \/ RtrFetchTemplate
  \/ RtrPublishRendered
  \/ RtrPublishReturns
  \/ RtrExit
  \/ \E m \in Routed : RtrAckTimeout(m)

(***************************************************************************)
(*                            renderTemplate                               *)
(***************************************************************************)
\* strings are sequences of UTF-16 code units
LBrace == 123
RBrace == 125
Dollar == 36
Ampersand == 38
Backtick == 96
Apostrophe == 39
LetterA == 97
LetterB == 98
LetterC == 99
LetterX == 120

\* `{{${variable}}}` as it stands in a template text
Placeholder(name) == <<LBrace, LBrace>> \o name \o <<RBrace, RBrace>>

\* the names a template declares in `variables`; "c" is used in texts and
\* never declared.  The names are letters: the pattern built from one matches
\* its placeholder literally
NameA == <<LetterA>>
NameB == <<LetterB>>
NameC == <<LetterC>>
Names == {NameA, NameB}
VariableLists == {<<>>, <<NameA>>, <<NameB>>, <<NameA, NameB>>, <<NameB, NameA>>}

\* the pieces template texts are made of
TemplateTokens ==
  {<<LetterX>>, Placeholder(NameA), Placeholder(NameB), Placeholder(NameC)}

RECURSIVE Concat(_)
Concat(ss) == IF ss = <<>> THEN <<>> ELSE Head(ss) \o Concat(Tail(ss))

\* template.body: text NOT NULL
TemplateTexts ==
  {Concat(ts) : ts \in UNION {[1..n -> TemplateTokens] : n \in 0..MaxTemplateTokens}}

\* template.subject || undefined (fetchTemplate): absent or a non-empty text
NoSubject == [present |-> FALSE, text |-> <<>>]
TemplateSubjects ==
  {NoSubject} \cup {[present |-> TRUE, text |-> t] : t \in TemplateTokens}

\* values of the rendering context (event.data is Record<string, unknown>)
Undefined == [kind |-> "undefined", text |-> <<>>, num |-> 0]
StringValue(t) == [kind |-> "string", text |-> t, num |-> 0]
NumberValue(n) == [kind |-> "number", text |-> <<>>, num |-> n]
ContextValues ==
  {Undefined, NumberValue(0), NumberValue(7), StringValue(<<LetterX>>),
   StringValue(Placeholder(NameB)), StringValue(<<Dollar, Dollar>>),
   StringValue(<<Dollar, Ampersand>>)}

\* value || '': undefined, 0 and '' are falsy
OrEmpty(value) ==
  IF \/ value.kind = "undefined"
     \/ (value.kind = "number" /\ value.num = 0)
     \/ (value.kind = "string" /\ value.text = <<>>)
  THEN StringValue(<<>>)
  ELSE value

\* String(v) of a string or a number
String(value) ==
  IF value.kind = "number" THEN toString(value.num) ELSE value.text

\* the pattern new RegExp(`\\{\\{${variable}\\}\\}`) matches str at index i
MatchesAt(str, i, pat) ==
  /\ i + Len(pat) - 1 <= Len(str)
  /\ \A k \in 1..Len(pat) : str[i + k - 1] = pat[k]

\* GetSubstitution of String.prototype.replace with a string replacement and
\* a pattern without groups: $$ is a dollar sign, $& the matched text, $` the
\* text before the match and $' the text after it; anything else is literal
RECURSIVE GetSubstitution(_, _, _, _)
GetSubstitution(matched, before, after, replacement) ==
  IF replacement = <<>> THEN <<>>
  ELSE IF Head(replacement) = Dollar /\ Len(replacement) >= 2
  THEN LET c == replacement[2]
           rest == GetSubstitution(matched, before, after, Tail(Tail(replacement)))
       IN IF c = Dollar THEN <<Dollar>> \o rest
          ELSE IF c = Ampersand THEN matched \o rest
          ELSE IF c = Backtick THEN before \o rest
          ELSE IF c = Apostrophe THEN after \o rest
          ELSE <<Dollar>> \o GetSubstitution(matched, before, after, Tail(replacement))
  ELSE <<Head(replacement)>>
       \o GetSubstitution(matched, before, after, Tail(replacement))

\* str.replace(placeholder, replacement) with the g flag, from index i on:
\* matches are found left to right in str and do not overlap; inserted text
\* is not scanned again
RECURSIVE ReplaceFrom(_, _, _, _)
ReplaceFrom(str, i, pat, replacement) ==
  IF i > Len(str) THEN <<>>
  ELSE IF MatchesAt(str, i, pat)
  THEN GetSubstitution(pat, SubSeq(str, 1, i - 1),
                       SubSeq(str, i + Len(pat), Len(str)), replacement)
       \o ReplaceFrom(str, i + Len(pat), pat, replacement)
  ELSE <<str[i]>> \o ReplaceFrom(str, i + 1, pat, replacement)

\* the loop `for (const variable of template.variables)` over one text:
\* text = text.replace(placeholder, String(context[variable] || ''))
RECURSIVE RenderText(_, _, _)
RenderText(text, variables, context) ==
  IF variables = <<>> THEN text
  ELSE LET variable == Head(variables)
           value == IF variable \in DOMAIN context THEN context[variable]
                    ELSE Undefined
       IN RenderText(ReplaceFrom(text, 1, Placeholder(variable),
                                 String(OrEmpty(value))),
                     Tail(variables), context)

\* renderTemplate: the body, then the subject `if (renderedSubject)`
renderTemplate(body, subject, variables, context) ==
  [subject |-> IF subject.present
               THEN [present |-> TRUE,
                     text |-> RenderText(subject.text, variables, context)]
               ELSE subject,
   body |-> RenderText(body, variables, context)]

NoResult == [subject |-> NoSubject, body |-> <<>>]

AtSign == 64
UserLiteral == <<85, 115, 101, 114>>

\* value is falsy: the left operand of || is passed over
Falsy(value) == OrEmpty(value) = StringValue(<<>>)

\* str.split('@')[0]: the text before the first '@', all of it without one
RECURSIVE SplitAtFirst(_)
SplitAtFirst(str) ==
  IF str = <<>> \/ Head(str) = AtSign THEN <<>>
  ELSE <<Head(str)>> \o SplitAtFirst(Tail(str))

\* event.userEmail?.split('@')[0]
EmailLocalPart(userEmail) ==
  IF userEmail.kind = "undefined" THEN Undefined
  ELSE StringValue(SplitAtFirst(userEmail.text))

\* a context built with the injected fields first and event.data spread last
BuildContextDataLast(dataUserName, dataUserEmail, userEmail) ==
  [userName |-> IF dataUserName.kind # "undefined" THEN dataUserName
                ELSE IF ~Falsy(EmailLocalPart(userEmail)) THEN EmailLocalPart(userEmail)
                ELSE StringValue(UserLiteral),
   userEmail |-> IF dataUserEmail.kind # "undefined" THEN dataUserEmail
                 ELSE userEmail]

\* const context = { ...event.data,
\*   userName: event.data.userName || event.userEmail?.split('@')[0] || 'User',
\*   userEmail: event.userEmail }: the keys written after the spread win
BuildContext(dataUserName, dataUserEmail, userEmail) ==
  [userName |-> IF ~Falsy(dataUserName) THEN dataUserName
                ELSE IF ~Falsy(EmailLocalPart(userEmail)) THEN EmailLocalPart(userEmail)
                ELSE StringValue(UserLiteral),
   userEmail |-> userEmail]

NoContext == [userName |-> Undefined, userEmail |-> Undefined]

\* the event of a call whose template does not use the injected fields
PlainEvent ==
  /\ evDataUserName = Undefined
  /\ evDataUserEmail = Undefined
  /\ evUserEmail = Undefined

\* a users.email (z.string().email()): local part, '@', domain
UserEmails == {StringValue(<<LetterA, AtSign, LetterX>>),
               StringValue(<<LetterA, LetterB, AtSign, LetterX>>)}

\* a template row and a rendering context, before the call
RenderInit ==
  /\ tplBody \in TemplateTexts
  /\ tplSubject \in TemplateSubjects
  /\ tplVariables \in VariableLists
  /\ rnContext \in [Names -> ContextValues]
  /\ PlainEvent
  /\ rnPc = "call"
  /\ rnResult = NoResult
  /\ rnFirst = NoResult
  /\ rnBuilt = NoContext

\* an enriched event before the call that renders it, with or without
\* userName and userEmail in its data, of a known or an unknown user
ContextInit ==
  /\ tplBody = <<>>
  /\ tplSubject = NoSubject
  /\ tplVariables = <<>>
  /\ rnContext = [n \in Names |-> Undefined]
  /\ evDataUserName \in {Undefined, NumberValue(0), NumberValue(7),
                          StringValue(<<>>), StringValue(<<LetterX>>)}
  /\ evDataUserEmail \in {Undefined} \cup UserEmails
  /\ evUserEmail \in {Undefined} \cup UserEmails
  /\ rnPc = "call"
  /\ rnResult = NoResult
  /\ rnFirst = NoResult
  /\ rnBuilt = NoContext

\* the renderer state of a specification that does not call renderTemplate
RenderQuiet ==
  /\ tplBody = <<>>
  /\ tplSubject = NoSubject
  /\ tplVariables = <<>>
  /\ rnContext = [n \in Names |-> Undefined]
  /\ PlainEvent
  /\ rnPc = "call"
  /\ rnResult = NoResult
  /\ rnFirst = NoResult
  /\ rnBuilt = NoContext

\* a renderTemplate that writes the rendered texts back into the template
RenderCallInPlace ==
  /\ rnPc \in {"call", "done"}
  /\ rnBuilt' = BuildContext(evDataUserName, evDataUserEmail, evUserEmail)
  /\ rnResult' = renderTemplate(tplBody, tplSubject, tplVariables, rnContext)
  /\ rnFirst' = rnResult
  /\ rnPc' = IF rnPc = "call" THEN "done" ELSE "twice"
  /\ tplBody' = rnResult'.body
  /\ tplSubject' = rnResult'.subject
  /\ UNCHANGED <<tplVariables, rnContext, evDataUserName, evDataUserEmail,
                 evUserEmail>>
  /\ UNCHANGED outsideRender

\* const rendered = this.renderTemplate(template, event): the context is
\* built, then body and subject are rendered into local strings; the
\* template and the event are left as they are.  The call is made once, and
\* once more when the routed message is delivered again
RenderCall ==
  /\ rnPc \in {"call", "done"}
  /\ rnBuilt' = BuildContext(evDataUserName, evDataUserEmail, evUserEmail)
  /\ rnResult' = renderTemplate(tplBody, tplSubject, tplVariables, rnContext)
  /\ rnFirst' = rnResult
  /\ rnPc' = IF rnPc = "call" THEN "done" ELSE "twice"
  /\ UNCHANGED <<tplBody, tplSubject, tplVariables, rnContext, evDataUserName,
                 evDataUserEmail, evUserEmail>>
  /\ UNCHANGED outsideRender

NextRender == RenderCall

(***************************************************************************)
(*                       notificationEventSchema                           *)
(***************************************************************************)
\* a field the JSON does not have
Absent == [present |-> FALSE, value |-> "undefined"]
Given(v) == [present |-> TRUE, value |-> v]

\* the channel names a message may carry: "fax" stands for the strings
\* outside channelSchema
RawChannelNames == {"email", "in_app", "fax"}
\* prioritySchema
Priorities == {"low", "normal", "high", "urgent"}

\* a timestamp string: ISO-8601 in UTC ('...Z'), RFC-3339 with a numeric
\* offset ('...+02:00'), or some other text
RawTimestamps == {"utc", "offset", "text"}

\* event.data: a JSON object, or a JSON string
RawData == {"object", "string"}

\* eventId and userId: no string, '' or a non-empty string
RawIds == {Absent, Given(<<>>), Given(<<LetterX>>)}

RawChannelLists == UNION {[1..n -> RawChannelNames] : n \in 0..MaxRawChannels}

\* "billing" and "critical" stand for the strings outside eventTypeSchema
\* and prioritySchema
RawEvents ==
  [eventId : RawIds,
   eventType : {Absent} \cup {Given(t) : t \in {"account", "billing"}},
   userId : RawIds,
   channels : {Absent} \cup {Given(cs) : cs \in RawChannelLists},
   priority : {Absent} \cup {Given(q) : q \in {"high", "critical"}},
   data : {Absent} \cup {Given(d) : d \in RawData},
   scheduledAt : {Absent} \cup {Given(t) : t \in RawTimestamps},
   expiresAt : {Absent, Given("utc"), Given("text")},
   createdAt : {Absent, Given("utc"), Given("offset")}]

\* z.string().min(1)
StringMin1(f) == f.present /\ Len(f.value) >= 1

\* z.enum([...]) of a required field
InEnum(f, enum) == f.present /\ f.value \in enum

\* z.array(channelSchema).min(1)
ChannelArrayMin1(f) ==
  /\ f.present
  /\ Len(f.value) >= 1
  /\ \A i \in 1..Len(f.value) : f.value[i] \in Channels

\* z.string().datetime(): without options only the UTC form ('Z') passes
Datetime(f) == f.present /\ f.value = "utc"

\* .optional() and .default(...): an absent field passes
OptionalOr(f, ok) == ~f.present \/ ok

\* z.record(z.unknown())
Record(f) == f.present /\ f.value = "object"

\* notificationEventSchema.safeParse(rawEvent).success
SchemaAccepts(r) ==
  /\ StringMin1(r.eventId)
  /\ InEnum(r.eventType, EventTypes)
  /\ StringMin1(r.userId)
  /\ ChannelArrayMin1(r.channels)
  /\ OptionalOr(r.priority, InEnum(r.priority, Priorities))
  /\ Record(r.data)
  /\ OptionalOr(r.scheduledAt, Datetime(r.scheduledAt))
  /\ OptionalOr(r.expiresAt, Datetime(r.expiresAt))
  /\ OptionalOr(r.createdAt, Datetime(r.createdAt))

\* a safeParse that takes the priority as it comes
safeParseNoPriorityCheck(r) ==
  [success |-> /\ StringMin1(r.eventId)
               /\ InEnum(r.eventType, EventTypes)
               /\ StringMin1(r.userId)
               /\ ChannelArrayMin1(r.channels)
               /\ Record(r.data)
               /\ OptionalOr(r.scheduledAt, Datetime(r.scheduledAt))
               /\ OptionalOr(r.expiresAt, Datetime(r.expiresAt))
               /\ OptionalOr(r.createdAt, Datetime(r.createdAt)),
   priority |-> IF r.priority.present THEN r.priority.value ELSE "undefined"]

\* safeParse: success, and the priority of the parsed event
\* (prioritySchema.default('normal'))
safeParse(r) ==
  [success |-> SchemaAccepts(r),
   priority |-> IF ~SchemaAccepts(r) THEN "undefined"
                ELSE IF r.priority.present THEN r.priority.value ELSE "normal"]

\* no call of safeParse yet: vResult is a sequence of at most one result
NotParsed == <<>>

\* a decoded message before validation
ValidateInit ==
  /\ raw \in RawEvents
  /\ vResult = NotParsed

\* the validation state of a specification that validates nothing
ValidateQuiet ==
  /\ raw = [eventId |-> Absent, eventType |-> Absent, userId |-> Absent,
            channels |-> Absent, priority |-> Absent, data |-> Absent,
            scheduledAt |-> Absent, expiresAt |-> Absent, createdAt |-> Absent]
  /\ vResult = NotParsed

\* const validationResult = notificationEventSchema.safeParse(rawEvent)
\* (processEvent, line 101)
ValidateCall ==
  /\ vResult = NotParsed
  /\ vResult' = <<safeParse(raw)>>
  /\ UNCHANGED raw
  /\ UNCHANGED outsideValidate

NextValidate ==
  \/ ValidateCall

(***************************************************************************)
(*                    AnalyticsService.getAnalytics                        *)
(***************************************************************************)
\* the channels that have rows
AnChannels == {"email", "sms"}
\* the statuses the workers write
AnStatuses == {"delivered", "failed"}
\* created_at against since = now - periodHours: inside the period or before
AnAges == {"recent", "old"}
AnCells == AnChannels \X AnStatuses \X AnAges

RECURSIVE SumOver(_, _)
SumOver(f, S) ==
  IF S = {} THEN 0
  ELSE LET x == CHOOSE y \in S : TRUE IN f[x] + SumOver(f, S \ {x})

\* count(*) ... where created_at >= since [and channel = c]
CountRows(cs, sts) == SumOver(anRows, cs \X sts \X {"recent"})

\* Math.round(n / d) for n >= 0, d > 0: halves go up
MathRoundDiv(n, d) == (2 * n + d) \div (2 * d)

\* a number as a fraction
Fraction(n, d) == [num |-> n, den |-> d]

\* total > 0 ? (delivered / total) * 100 : 0
successRate(total, delivered) ==
  IF total > 0 THEN Fraction(delivered * 100, total) ELSE Fraction(0, 1)

\* Math.round(x * 100) / 100
Round2(x) == Fraction(MathRoundDiv(x.num * 100, x.den), 100)

\* channelStats.map(...): one entry per channel that has rows in the period
channelMetrics ==
  [c \in {d \in AnChannels : CountRows({d}, AnStatuses) > 0} |->
     [total |-> CountRows({c}, AnStatuses),
      delivered |-> CountRows({c}, {"delivered"}),
      failed |-> CountRows({c}, {"failed"}),
      successRate |-> successRate(CountRows({c}, AnStatuses),
                                  CountRows({c}, {"delivered"}))]]

NoReport == <<>>

AnalyticsInit ==
  /\ anRows = [x \in AnCells |-> 0]
  /\ anReport = NoReport

AnalyticsQuiet == AnalyticsInit

\* a worker writes a delivery row
AnInsert(c, st) ==
  /\ SumOver(anRows, AnCells) < MaxAnRows
  /\ anRows' = [anRows EXCEPT ![<<c, st, "recent">>] = @ + 1]
  /\ UNCHANGED anReport
  /\ UNCHANGED outsideAnalytics

\* time passes: a row is now older than the period
AnAge(c, st) ==
  /\ anRows[<<c, st, "recent">>] > 0
  /\ anRows' = [anRows EXCEPT ![<<c, st, "recent">>] = @ - 1,
                              ![<<c, st, "old">>] = @ + 1]
  /\ UNCHANGED anReport
  /\ UNCHANGED outsideAnalytics

\* getAnalytics(periodHours)
getAnalytics ==
  /\ anReport' =
       <<[totalDeliveries |-> CountRows(AnChannels, AnStatuses),
          successRate |-> Round2(successRate(CountRows(AnChannels, AnStatuses),
                                             CountRows(AnChannels, {"delivered"}))),
          channelMetrics |-> channelMetrics]>>
  /\ UNCHANGED anRows
  /\ UNCHANGED outsideAnalytics

NextAnalytics ==
  \/ \E c \in AnChannels, st \in AnStatuses : AnInsert(c, st)
  \/ \E c \in AnChannels, st \in AnStatuses : AnAge(c, st)
  \/ getAnalytics

NextWorkerCrash ==
  \/ NextWorker
  \/ WCrash

InitIngest == IngInit /\ WrkQuiet /\ QhQuiet /\ PrefQuiet /\ RtrQuiet /\ RenderQuiet /\ ValidateQuiet /\ AnalyticsQuiet

SpecIngest == InitIngest /\ [][NextIngest]_vars

InitIngestRecipients == IngInitRecipients /\ WrkQuiet /\ QhQuiet /\ PrefQuiet /\ RtrQuiet /\ RenderQuiet /\ ValidateQuiet /\ AnalyticsQuiet

SpecIngestRecipients == InitIngestRecipients /\ [][NextIngest]_vars

InitWorker == WrkInit /\ IngQuiet /\ QhQuiet /\ PrefQuiet /\ RtrQuiet /\ RenderQuiet /\ ValidateQuiet /\ AnalyticsQuiet

SpecWorker == InitWorker /\ [][NextWorker]_vars

\* a running worker process with the first NCrashRendered messages on the subject
WrkInitCrash == WrkInitWith(0..(BREAKER_THRESHOLD - 1), 1..NCrashRendered, AllKnown)

InitWorkerCrash == WrkInitCrash /\ IngQuiet /\ QhQuiet /\ PrefQuiet /\ RtrQuiet /\ RenderQuiet /\ ValidateQuiet /\ AnalyticsQuiet

SpecWorkerCrash == InitWorkerCrash /\ [][NextWorkerCrash]_vars

\* a worker process that has just started, or one failure short of the threshold
WrkInitWarm == WrkInitWith({0, BREAKER_THRESHOLD - 1}, Rendered, AllKnown)

InitWorkerWarm == WrkInitWarm /\ IngQuiet /\ QhQuiet /\ PrefQuiet /\ RtrQuiet /\ RenderQuiet /\ ValidateQuiet /\ AnalyticsQuiet

\* the worker without process deaths; the sleep of the cooldown returns
\* while the worker process runs
SpecWorkerFair == InitWorkerWarm /\ [][NextWorker]_vars /\ WF_vars(WCooldown)

InitQuiet == QhInit /\ IngQuiet /\ WrkQuiet /\ PrefQuiet /\ RtrQuiet /\ RenderQuiet /\ ValidateQuiet /\ AnalyticsQuiet

SpecQuiet == InitQuiet /\ [][NextQuiet]_vars

InitPref == PrefInit /\ IngQuiet /\ WrkQuiet /\ QhQuiet /\ RtrQuiet /\ RenderQuiet /\ ValidateQuiet /\ AnalyticsQuiet

SpecPref == InitPref /\ [][NextPref]_vars

InitPrefRace == PrefInitRace /\ IngQuiet /\ WrkQuiet /\ QhQuiet /\ RtrQuiet /\ RenderQuiet /\ ValidateQuiet /\ AnalyticsQuiet

SpecPrefRace == InitPrefRace /\ [][NextPref]_vars

InitRouter == RtrInit /\ IngQuiet /\ WrkQuiet /\ QhQuiet /\ PrefQuiet /\ RenderQuiet /\ ValidateQuiet /\ AnalyticsQuiet

SpecRouter == InitRouter /\ [][NextRouter]_vars

InitRender == RenderInit /\ IngQuiet /\ WrkQuiet /\ QhQuiet /\ PrefQuiet /\ RtrQuiet /\ ValidateQuiet /\ AnalyticsQuiet

SpecRender == InitRender /\ [][NextRender]_vars

InitContext == ContextInit /\ IngQuiet /\ WrkQuiet /\ QhQuiet /\ PrefQuiet /\ RtrQuiet /\ ValidateQuiet /\ AnalyticsQuiet

SpecContext == InitContext /\ [][NextRender]_vars

InitValidate == ValidateInit /\ IngQuiet /\ WrkQuiet /\ QhQuiet /\ PrefQuiet /\ RtrQuiet /\ RenderQuiet /\ AnalyticsQuiet

SpecValidate == InitValidate /\ [][NextValidate]_vars

InitAnalytics == AnalyticsInit /\ IngQuiet /\ WrkQuiet /\ QhQuiet /\ PrefQuiet /\ RtrQuiet /\ RenderQuiet /\ ValidateQuiet

SpecAnalytics == InitAnalytics /\ [][NextAnalytics]_vars

(***************************************************************************)
(*                               CLAIMS                                    *)
(***************************************************************************)
ValidMsgsOf(e) == {m \in EvMsgs : msgEventId[m] = e /\ msgValid[m]}

DeliveredRows(m) ==
  {row \in BagToSet(rows) : row.msg = m /\ row.status = "delivered"}

FailedRows(m) ==
  {row \in BagToSet(rows) : row.msg = m /\ row.status = "failed"}

\* the failed row the terminal failure of m is to leave
TerminalRow(m) ==
  [msg |-> m, status |-> "failed", attemptCount |-> MAX_RETRIES, error |-> TRUE]

\* C1: under any interleaving of concurrent deliveries of submitted messages
\* with the same event_id, at most one enriched event with that event_id is
\* published to notifications.enriched while the dedup key has not expired.
C1_AtMostOneEnrichedPerEventId ==
  \A e \in EventIds : e \notin dedupExpired => enrichedCount[e] <= 1

\* C2: no valid event is lost: once every submitted message of a valid event
\* id is off the stream (acked), within the dedup TTL, an enriched event with
\* that id has been published, whatever crashes, lookup failures or publish
\* failures happened on the way.
C2_ValidEventEventuallyEnriched ==
  \A e \in EventIds :
    ( /\ e \notin dedupExpired
      /\ ValidMsgsOf(e) # {}
      /\ \A m \in ValidMsgsOf(e) : evStatus[m] = "acked" )
    => enrichedCount[e] >= 1

\* C3: a message that fails JSON decoding or schema validation is acked, is
\* never NAKed and is never delivered a second time.
C3_PoisonMessageAckDropped ==
  \A m \in EvMsgs :
    ~msgValid[m] => /\ evNaks[m] = 0
                    /\ evDeliveries[m] <= 1

\* C4: for every worker and message, once the worker is through with the
\* terminal failure of the message (the failed attempt with r+1 >= MAX_RETRIES)
\* exactly one DLQ record and exactly one delivery row status=failed,
\* attempt_count=3, error set exist for it.
C4_TerminalFailureLeavesOneDlqOneFailedRow ==
  \A m \in terminalFail :
    cur # m => /\ dlqCount[m] = 1
               /\ FailedRows(m) = {TerminalRow(m)}
               /\ CopiesIn(TerminalRow(m), rows) = 1

\* C5: the transport adapter is invoked at most MAX_RETRIES times for a single
\* rendered message, over any sequence of failures, NAKs, worker crashes and
\* broker redeliveries.
C5_AtMostMaxRetriesTransportCalls ==
  \A m \in Rendered : sendCount[m] <= MAX_RETRIES

\* C5 witness: a message was sent MAX_RETRIES times, after NAKs and redeliveries
C5_Witness ==
  \E m \in Rendered : /\ sendCount[m] = MAX_RETRIES
                      /\ naks[m] >= 1
                      /\ dlvDeliveries[m] = MAX_RETRIES

\* C6: every message the worker takes from a fetched batch gets exactly one
\* disposition per delivery: the number of ack and nak calls on a message
\* equals the number of times the worker took it and is through with it.
C6_ExactlyOneDispositionPerDelivery ==
  \A m \in Rendered :
    acks[m] + naks[m] = taken[m] - (IF cur = m THEN 1 ELSE 0)

\* C7: every rendered message reaches a terminal outcome recorded in the
\* delivery store: once the broker is through with a message (acked, or
\* max_deliver reached) there is a delivered row for it, or a failed row
\* together with a DLQ record.
C7_DoneMessageHasTerminalRecord ==
  \A m \in Rendered :
    dlvStatus[m] \in {"acked", "dropped"}
    => \/ DeliveredRows(m) # {}
       \/ (FailedRows(m) # {} /\ dlqCount[m] >= 1)

\* C8: in an email/sms/push worker the breaker is open if and only if
\* consecutive_failures >= 5, in every reachable state.
C8_BreakerOpenIffFiveFailures ==
  HasBreaker => (circuitOpen <=> consecutiveFailures >= BREAKER_THRESHOLD)

\* C9: once consecutive_failures has reached 5 the worker takes no further
\* message and makes no transport adapter call until the counter is reset.
C9_NoProcessingWhileFiveFailures ==
  [][consecutiveFailures >= BREAKER_THRESHOLD
       => (sendCount' = sendCount /\ taken' = taken)]_vars

\* C10: an open circuit breaker always eventually closes, with
\* consecutive_failures reset to 0, while the worker runs.
C10_OpenBreakerEventuallyCloses ==
  circuitOpen ~> (~circuitOpen /\ consecutiveFailures = 0)

\* C10 witness: the breaker was opened, closed by the cooldown, and a later
\* run of 5 failures has opened it a second time
C10_Witness ==
  /\ opens = 2
  /\ circuitOpen
  /\ consecutiveFailures >= BREAKER_THRESHOLD

\* the wrap-around definition of the quiet window, on seconds of the day
InQuietWindow(now, start, end) ==
  IF end < start THEN now >= start \/ now < end
  ELSE start <= now /\ now < end

\* C16: for every start, end and now given as HH:MM:SS, isInQuietHours equals
\* (now >= start or now < end) when end < start and (start <= now < end)
\* otherwise: start inclusive, end exclusive, start = end false for every now
C16_IsInQuietHoursIsWrapAroundWindow ==
  qhPc # "input" =>
    /\ qhResult = InQuietWindow(qhNow, qhStart, qhEnd)
    /\ (qhNow = qhStart /\ qhStart # qhEnd => qhResult)
    /\ (qhNow = qhEnd => ~qhResult)
    /\ (qhStart = qhEnd => ~qhResult)

\* C16 witness: a window that wraps midnight, called after midnight and
\* before its end, answers true
C16_Witness ==
  /\ qhPc = "called"
  /\ qhEnd < qhStart
  /\ qhNow < qhEnd
  /\ qhResult

\* C17: with both quiet-hours fields set, rule 3 denies if and only if the
\* true UTC time of day, seconds included, lies in the quiet window
C17_Rule3DeniesIffTrueTimeInWindow ==
  qhPc = "ruled" => (qhDenied = InQuietWindow(qhNow, qhStart, qhEnd))

\* rules 1 and 2 deny the channel whatever the time and the counter
DeniedByRow(c) ==
  \/ ~prefRow[c].exists /\ enrType = "marketing"
  \/ prefRow[c].exists /\ ~prefRow[c].enabled

AllChannelsDeniedByRow == \A i \in DOMAIN enrChannels : DeniedByRow(enrChannels[i])

PrefMin(a, b) == IF a < b THEN a ELSE b

\* C12: of the evaluations of a key that pass rules 1-3 within one window,
\* row or no row, the first 10 are allowed, the 11th and later are denied,
\* and after 11 evaluations the counter is 11 (evaluations cut short by a
\* failing store call set aside)
C12_FirstTenAllowedThenDenied ==
  \A c \in PrefChannels :
    (rateCount[c] >= 1 => rateTtl[c]) =>
      /\ evalHist[c].allowed = PrefMin(evalHist[c].passed, DEFAULT_RATE_LIMIT)
      /\ evalHist[c].passed > DEFAULT_RATE_LIMIT => rateCount[c] = evalHist[c].passed

C14_NoLostIncrementAtMostTenAllowed ==
  \A c \in PrefChannels :
    /\ rateCount[c] = evalHist[c].reached4
    /\ evalHist[c].allowed <= DEFAULT_RATE_LIMIT

\* C15: a rate-limit key with value >= 1 carries a TTL as soon as no replica
\* is between the increment and the expire call of its first evaluation
C15_CounterKeyCarriesTtl ==
  \A c \in PrefChannels :
    (/\ rateCount[c] >= 1
     /\ \A r \in PrefReplicas : ~(pf[r].pc = "expire" /\ enrChannels[pf[r].idx] = c))
      => rateTtl[c]

\* C18: without a row the channel is denied for marketing (rule 1) and passes
\* rules 1-3 for the other types; a row with enabled = false is denied by
\* rule 2 before quiet hours and the counter are looked at; the rules apply
\* in the order 1, 2, 3, 4 and the first denial wins
C18_RulesInOrderFirstDenialWins ==
  lastEval # NoEval =>
    LET row == prefRow[lastEval.chan]
        rule == lastEval.rule
        cnt == lastEval.count
    IN /\ ~row.exists => (rule = IF enrType = "marketing" THEN 1 ELSE 0) /\ cnt = 0
       /\ (row.exists /\ ~row.enabled) => rule = 2 /\ cnt = 0
       /\ rule = 3 => row.exists /\ row.enabled /\ row.quiet /\ cnt = 0
       /\ rule = 4 => row.exists /\ row.enabled /\ cnt > DEFAULT_RATE_LIMIT
       /\ (rule = 0 /\ row.exists) => row.enabled /\ cnt \in 1..DEFAULT_RATE_LIMIT

\* C18 witness: a disabled row with quiet hours set was denied by rule 2
C18_Witness ==
  /\ lastEval # NoEval
  /\ lastEval.rule = 2
  /\ prefRow[lastEval.chan].quiet
  /\ rateCount[lastEval.chan] = 0

\* C19: never two routed messages for the same event and channel
C19_AtMostOneRoutedPerEventChannel ==
  \A m \in Enriched : \A c \in PrefChannels : routed[m][c] <= 1

\* C20: for every routed message that reaches the renderer, exactly one
\* rendered message is published: never two, and one once the routed message
\* is acked
C20_ExactlyOneRenderedPerRouted ==
  \A m \in Routed :
    /\ renderedCount[m] <= 1
    /\ rtdStatus[m] = "acked" => renderedCount[m] = 1

\* the delivered row the attempt made at the present delivery of m writes
DeliveredRowOf(m) ==
  [msg |-> m, status |-> "delivered", attemptCount |-> RedeliveryCount(m) + 1,
   error |-> FALSE]

\* C21: on the success path the delivery row (status=delivered,
\* attempt_count = r + 1) is written before the message is acked: whenever a
\* message that did not fail terminally is acked, the row of this delivery is
\* already in the delivery store, whatever crashes and redeliveries came before.
C21_DeliveredRowBeforeSuccessAck ==
  [][\A m \in Rendered :
       (acks'[m] > acks[m] /\ m \notin terminalFail)
       => DeliveredRowOf(m) \in BagToSet(rows)]_vars

\* C21 witness: a message was acked as delivered on its second delivery
C21_Witness ==
  \E m \in Rendered : /\ acks[m] = 1
                      /\ m \notin terminalFail
                      /\ dlvDeliveries[m] = 2
                      /\ DeliveredRowOf(m) \in BagToSet(rows)

\* C22: the delivery store holds at most one delivered row per
\* (event_id, user_id, channel), that is per rendered message, whatever
\* redeliveries of the message occur.
C22_AtMostOneDeliveredRow ==
  \A m \in Rendered : Cardinality(DeliveredRows(m)) <= 1

EmailBackoff(r) == IF r = 0 THEN 0 ELSE IF r = 1 THEN 1000 ELSE 5000

\* C24: when the transport fails on every attempt of a rendered message the
\* worker makes exactly 3 attempts, at redelivery counts 0, 1, 2, waiting
\* RETRY_DELAYS[min(r-1, len-1)] before the attempt at r > 0 (1000, 5000 ms for
\* email); the failures at r = 0 and r = 1 are NAKed and the failure at r = 2
\* sends the message to the DLQ and acks it.  Stated for a worker with a
\* transport (not in_app) and a message none of whose attempts got to the
\* delivery store.
C24_ThreeAttemptsBackoffThenDlq ==
  /\ wpc = "backoff"
       => /\ deliveryAttempt \in 1..(MAX_RETRIES - 1)
          /\ channel = "email" => RetryDelay(deliveryAttempt) = EmailBackoff(deliveryAttempt)
  /\ \A m \in Rendered : naks[m] <= MAX_RETRIES - 1
  /\ \A m \in terminalFail :
        (HasBreaker /\ cur # m /\ DeliveredRows(m) = {})
        => /\ sendCount[m] = MAX_RETRIES
           /\ naks[m] = MAX_RETRIES - 1
           /\ dlqCount[m] = 1
           /\ acks[m] = 1

\* C25: in the in-app worker the broadcast is best-effort: once the delivery
\* row is persisted, whatever the publish to ws:notifications does, the worker
\* goes on to ack the message; it does not NAK it or start the DLQ branch.
C25_BroadcastFailureStillAcks ==
  [][(wpc = "broadcast" /\ wpc' # "broadcast")
       => /\ wpc' = "ack"
          /\ naks' = naks
          /\ terminalFail' = terminalFail]_vars

\* C27: a message whose processing has started (it is in hand, between the
\* backoff and the ack of its delivery) is processed to the end and acked or
\* NAKed before the worker process exits on SIGINT/SIGTERM: the worker never
\* lets go of such a message without an ack or a NAK, and a transport call in
\* flight is never cut off.
C27_StartedMessageFinishedBeforeExit ==
  [][(cur # 0 /\ wpc \in {"backoff", "send", "insert", "broadcast", "ack"}
             /\ cur' # cur)
       => acks'[cur] + naks'[cur] = acks[cur] + naks[cur] + 1]_vars

C26_UnknownUserDlqRecordWithFailedRow ==
  \A m \in Rendered :
    (~userKnown[m] /\ HasBreaker)
    => /\ DeliveredRows(m) = {}
       /\ (dlqCount[m] >= 1 /\ cur # m)
            => /\ dlvDeliveries[m] = MAX_RETRIES
               /\ FailedRows(m) = {TerminalRow(m)}

\* C29: when no template exists for (channel, event_type) the renderer
\* publishes a rendered message with subject "Notification: " + event_type
\* and body = JSON of event.data, and acks the routed message; the missing
\* template never causes a NAK or a dropped message: a NAK comes only from a
\* throw of the template lookup or of the publish, what is stored on the
\* delivery subject is the fallback, and a message is acked only after its
\* rendered message was stored.
C29_MissingTemplateFallbackPublished ==
  rtrTemplate = "none"
  => \A m \in Routed :
       /\ rtrNakCause[m] \subseteq {"fetchTemplate", "publishRendered"}
       /\ renderedCount[m] >= 1 => lastRendered[m] = FallbackRendered
       /\ rtdStatus[m] = "acked" => renderedCount[m] >= 1
       /\ (rtr.cur = m /\ rtr.pc \in {"publish", "puback"})
            => rtdStatus[m] = "inflight"

\* C29 witness: without a template a routed message was acked on its first
\* delivery, with no NAK, and the fallback is on the delivery subject
C29_Witness ==
  /\ rtrTemplate = "none"
  /\ \E m \in Routed : /\ rtdStatus[m] = "acked"
                        /\ rtdDeliveries[m] = 1
                        /\ rtrNakCause[m] = {}
                        /\ renderedCount[m] = 1
                        /\ lastRendered[m] = FallbackRendered

\* every occurrence of pat in str, from index i on, replaced by the
\* replacement text as it is
RECURSIVE ReplaceFromLiteral(_, _, _, _)
ReplaceFromLiteral(str, i, pat, replacement) ==
  IF i > Len(str) THEN <<>>
  ELSE IF MatchesAt(str, i, pat)
  THEN replacement \o ReplaceFromLiteral(str, i + Len(pat), pat, replacement)
  ELSE <<str[i]>> \o ReplaceFromLiteral(str, i + 1, pat, replacement)

\* the text the rendering contract prescribes: for each declared name in
\* turn, every occurrence of its placeholder replaced by the string form of
\* the context value, or by nothing when the value is missing or falsy
RECURSIVE ContractText(_, _, _)
ContractText(text, variables, context) ==
  IF variables = <<>> THEN text
  ELSE ContractText(
         ReplaceFromLiteral(text, 1, Placeholder(Head(variables)),
                            String(OrEmpty(context[Head(variables)]))),
         Tail(variables), context)

\* C30: renderTemplate replaces every occurrence of {{name}} in body and
\* subject, for each name declared in template.variables, by the string form
\* of context[name], or by the empty string when the context has no (or a
\* falsy) value for it; an undeclared placeholder is left in place; a
\* template without subject yields no subject.
C30_RenderTemplateSubstitutesDeclaredNames ==
  rnPc # "call"
  => /\ rnResult.body = ContractText(tplBody, tplVariables, rnContext)
     /\ rnResult.subject.present = tplSubject.present
     /\ tplSubject.present
          => rnResult.subject.text
               = ContractText(tplSubject.text, tplVariables, rnContext)

\* the user name the context is to carry when event.data supplies none
DefaultUserName ==
  IF evUserEmail.kind # "undefined" THEN EmailLocalPart(evUserEmail)
  ELSE StringValue(UserLiteral)

\* C31 (as stated): in the rendering context the user name is the value
\* supplied in event.data when present, otherwise the part of user_email
\* before '@', otherwise the literal "User"; the context's user_email is
\* always the enriched user_email, whatever event.data holds under that name.
C31_UserNameFromDataWhenPresent ==
  rnPc # "call"
  => /\ rnBuilt.userName = IF evDataUserName.kind # "undefined"
                           THEN evDataUserName ELSE DefaultUserName
     /\ rnBuilt.userEmail = evUserEmail

\* C31 (amended): the user name is the value supplied in event.data when that
\* value is truthy (not missing, not '', not 0), otherwise the part of
\* user_email before '@', otherwise the literal "User"; the context's
\* user_email is always the enriched user_email.
C31_UserNameFromDataWhenTruthy ==
  rnPc # "call"
  => /\ rnBuilt.userName =
          IF /\ evDataUserName.kind # "undefined"
             /\ evDataUserName # StringValue(<<>>)
             /\ evDataUserName # NumberValue(0)
          THEN evDataUserName ELSE DefaultUserName
     /\ rnBuilt.userEmail = evUserEmail

\* C31 witness: event.data holds an empty userName and another userEmail than
\* the enrichment set; the context has the local part and the enriched email
C31_Witness ==
  /\ rnPc # "call"
  /\ evDataUserName = StringValue(<<>>)
  /\ evUserEmail.kind = "string"
  /\ evDataUserEmail.kind = "string"
  /\ evDataUserEmail # evUserEmail
  /\ rnBuilt.userName = EmailLocalPart(evUserEmail)
  /\ rnBuilt.userEmail = evUserEmail

ListedConditions(r) ==
  /\ r.eventId.present /\ r.eventType.present /\ r.userId.present
  /\ r.channels.present /\ r.data.present
  /\ Len(r.channels.value) >= 1
  /\ \A i \in 1..Len(r.channels.value) : r.channels.value[i] \in Channels
  /\ r.eventType.value \in EventTypes
  /\ (r.priority.present => r.priority.value \in Priorities)

\* the conditions of the schema the sentence leaves out: identifiers are not
\* empty, data is an object, and a given timestamp is a UTC date-time
FurtherConditions(r) ==
  /\ r.eventId.value # <<>> /\ r.userId.value # <<>>
  /\ r.data.value = "object"
  /\ \A t \in {r.scheduledAt, r.expiresAt, r.createdAt} : t.present => t.value = "utc"

ExpectedRate(total, delivered) ==
  IF total = 0 THEN Fraction(0, 1)
  ELSE Fraction(MathRoundDiv(delivered * 10000, total), 100)
SameNumber(x, y) == x.num * y.den = y.num * x.den
Within0And100(x) == 0 <= x.num /\ x.num <= 100 * x.den

\* the rows the last report was computed from are still the rows of the table
ReportIsCurrent ==
  /\ anReport # NoReport
  /\ anReport[1].totalDeliveries = CountRows(AnChannels, AnStatuses)
  /\ anReport[1].channelMetrics = channelMetrics

\* C34: the overall success_rate and the success_rate of every entry of
\* channel_metrics equal delivered/total*100 rounded to 2 decimals (0 when
\* total = 0), and each lies between 0 and 100.
C34_SuccessRatesRoundedToTwoDecimals ==
  ReportIsCurrent =>
    /\ SameNumber(anReport[1].successRate,
                  ExpectedRate(CountRows(AnChannels, AnStatuses),
                               CountRows(AnChannels, {"delivered"})))
    /\ Within0And100(anReport[1].successRate)
    /\ \A c \in DOMAIN anReport[1].channelMetrics :
         LET m == anReport[1].channelMetrics[c] IN
           /\ SameNumber(m.successRate, ExpectedRate(m.total, m.delivered))
           /\ Within0And100(m.successRate)


\* the two submitted events are for the same user and the same channels
SameRecipient(m, n) ==
  msgUserId[m] = msgUserId[n] /\ msgChannels[m] = msgChannels[n]

\* C35: an event is dropped as a duplicate only on account of an event with
\* the same eventId, the same userId and the same channel: a message acked as
\* a duplicate on its first delivery (so the key was not set by itself) has a
\* message of the same event id and the same recipient delivered before it.
C35_DuplicateOnlyOfSameUserAndChannel ==
  [][\A r \in Replicas :
       LET m == ing[r].cur
       IN ( /\ ing[r].pc = "get"
            /\ ing'[r].pc = "next"
            /\ evStatus'[m] = "acked"
            /\ evDeliveries[m] = 1 )
          => \E n \in EvMsgs \ {m} :
               /\ msgEventId[n] = msgEventId[m]
               /\ evDeliveries[n] >= 1
               /\ SameRecipient(m, n)]_vars


\* C36: every broadcast on ws:notifications carries the id of a persisted
\* delivery row of the same notification (an in_app row with status
\* delivered), and the in-app worker is about to broadcast only when the row
\* with the id in hand has been persisted.
C36_BroadcastOnlyOfPersistedRow ==
  /\ \A b \in broadcasts :
       /\ b.id \in DOMAIN rowOfId
       /\ rowOfId[b.id].msg = b.msg
       /\ rowOfId[b.id].status = "delivered"
  /\ wpc = "broadcast" =>
       /\ deliveryId \in DOMAIN rowOfId
       /\ rowOfId[deliveryId].msg = cur

\* C36 witness: two broadcasts were published, each for a row of its own.
C36_Witness ==
  /\ channel = "in_app"
  /\ \E b1, b2 \in broadcasts : b1.id # b2.id
  /\ \A b \in broadcasts : b.id \in DOMAIN rowOfId


\* C37: whenever ingestion acks a message as a duplicate (the dedup key was
\* found), an enriched event with that event id has already been published.
C37_DuplicateAckImpliesEnrichedPublished ==
  [][\A r \in Replicas :
       LET m == ing[r].cur
       IN ( /\ ing[r].pc = "get"
            /\ msgEventId[m] \in dedup
            /\ evStatus'[m] = "acked" )
          => enrichedCount[msgEventId[m]] >= 1]_vars


\* C38: for each rendered message the transport adapter succeeds at most
\* once, also when the write of the delivery row fails after the send.
C38_TransportSucceedsAtMostOnce ==
  \A m \in Rendered : sentOk[m] <= 1


\* the channels list names no channel twice
DistinctChannels ==
  \A i, j \in 1..Len(enrChannels) : enrChannels[i] = enrChannels[j] => i = j

\* C39: an enriched event consumes at most one unit of the rate-limit counter
\* of each channel it requests, redeliveries after a NAK included.
C39_AtMostOneUnitPerEventAndChannel ==
  DistinctChannels =>
    \A m \in Enriched : \A c \in PrefChannels : charged[m][c] <= 1


\* the names of a variables list
NamesOf(variables) == {variables[i] : i \in 1..Len(variables)}

\* the variables list in the opposite order
ReverseOf(variables) ==
  [i \in 1..Len(variables) |-> variables[Len(variables) + 1 - i]]

\* one pass over the text from index i on: a declared placeholder becomes the
\* string form of its value as it is, and the inserted text is not looked at
\* again
RECURSIVE VerbatimFrom(_, _, _, _)
VerbatimFrom(text, i, variables, context) ==
  IF i > Len(text) THEN <<>>
  ELSE LET hit == {v \in NamesOf(variables) : MatchesAt(text, i, Placeholder(v))}
       IN IF hit = {} THEN <<text[i]>> \o VerbatimFrom(text, i + 1, variables, context)
          ELSE LET v == CHOOSE w \in hit : TRUE
               IN String(OrEmpty(context[v]))
                  \o VerbatimFrom(text, i + Len(Placeholder(v)), variables, context)

\* no value of the context holds a dollar sign (the patterns of C30)
NoDollarInContext ==
  \A n \in DOMAIN rnContext :
    LET t == String(OrEmpty(rnContext[n]))
    IN \A i \in 1..Len(t) : t[i] # Dollar

\* C40: the output of renderTemplate is the same for the variables list in
\* the opposite order, and every declared placeholder of the template is
\* replaced by its value verbatim: inserted text is never substituted again.
C40_OrderIndependentNoResubstitution ==
  (rnPc # "call" /\ NoDollarInContext)
  => /\ rnResult = renderTemplate(tplBody, tplSubject, ReverseOf(tplVariables),
                                  rnContext)
     /\ rnResult.body = VerbatimFrom(tplBody, 1, tplVariables, rnContext)
     /\ tplSubject.present
          => rnResult.subject.text
               = VerbatimFrom(tplSubject.text, 1, tplVariables, rnContext)

============================================================================
